---- MODULE Spec2Model ----
(***************************************************************************)
(* A model of nv_isa_solver/instruction_solver.py: the encoding inference  *)
(* engine.  An instruction word is 128 bits and is modelled as the set of  *)
(* its one-bits.  Python's None is the empty tuple and a present value v   *)
(* is <<v>>, so that optional fields compare as the code compares them.    *)
(* A dict is a function whose DOMAIN is its key set.  A value written to   *)
(* the word is held as its binary numeral, the set of the positions of    *)
(* its one-bits, because a constant field can be 64 bits long.            *)
(***************************************************************************)
EXTENDS Integers, Sequences, FiniteSets, TLC

VARIABLES
    mset,      \* the InstructionMutationSet (classifier state)
    ranges,    \* EncodingRanges.ranges, once compute_encoding_ranges ran
    call,      \* the arguments of the last EncodingRanges.encode call
    encoded,   \* the word that call returned
    pc,        \* position in the scenario
    parsed,    \* the seed's parsed instruction (mset.parsed)
    mutations, \* the (i_bit, asm) triples _analyse has consumed so far
    oracle,    \* the disassembler's answers so far, by word
    pass,      \* the refinement pass under way, or None
    disasm,    \* the answers the last step of a pass received
    ispec,     \* an InstructionSpec
    request,   \* the modifier names asked of the solver
    solved,    \* what get_modifier_values returned
    outcome,   \* how InstructionSpec.encode ended
    tables,    \* what enumerate_modifiers returned
    instructions,    \* main: the seeds of the round under way, in order
    instruction_futures, \* main: the state of each submitted future
    analysis_result, \* main: the spec recorded for each seed
    isa_json,        \* what was written to isa.json, or None
    raising,         \* the seeds whose analysis pipeline raises
    modifiers_original, \* analyse_modifiers: the argument original
    modifiers_mutated,  \* analyse_modifiers: the argument mutated
    modifiers_result    \* analyse_modifiers: what the call returned, or None

vars == <<mset, ranges, call, encoded, pc, parsed, mutations, oracle, pass,
          disasm, ispec, request, solved, outcome, tables, instructions,
          instruction_futures, analysis_result, isa_json, raising,
          modifiers_original, modifiers_mutated, modifiers_result>>

encVars == <<ranges, call, encoded>>

anVars == <<parsed, mutations>>

rfVars == <<oracle, pass, disasm>>

svVars == <<ispec, request, solved, outcome>>

plVars == <<instructions, instruction_futures, analysis_result, isa_json,
            raising>>

amVars == <<modifiers_original, modifiers_mutated, modifiers_result>>

\* what the encoding scenario leaves alone
outsideEnc == <<anVars, rfVars, svVars, tables, plVars, amVars>>

\* what the initial classification leaves alone
outsideAn == <<encVars, rfVars, svVars, tables, plVars, amVars>>

\* what the refinement passes leave alone
outsideRf == <<call, encoded, parsed, mutations, svVars, tables,
               plVars, amVars>>

\* what the modifier-value solver leaves alone
outsideSv == <<mset, encVars, anVars, rfVars, tables, plVars, amVars>>

\* what the modifier enumeration leaves alone
outsideEn == <<mset, ranges, call, encoded, parsed, mutations, oracle, pass,
               disasm, svVars, plVars, amVars>>

\* what the worker pool leaves alone
outsidePl == <<mset, encVars, anVars, rfVars, svVars, tables, amVars>>

\* what a call of analyse_modifiers leaves alone
outsideAm == <<mset, encVars, anVars, rfVars, svVars, tables, plVars>>

\* main has not run
PoolIdle ==
    /\ instructions = <<>>
    /\ instruction_futures = <<>>
    /\ analysis_result = <<>>
    /\ isa_json = <<>>
    /\ raising = {}

\* analyse_modifiers is not being called on its own
ModifiersIdle ==
    /\ modifiers_original = <<>>
    /\ modifiers_mutated = <<>>
    /\ modifiers_result = <<>>

--------------------------------------------------------------------------
(* Python values *)

None == <<>>

Some(v) == <<v>>

\* Python truthiness of an optional integer: neither None nor 0.
Truthy(x) == x # None /\ x[1] # 0

DictGet(d, k, default) == IF k \in DOMAIN d THEN d[k] ELSE default

DictSet(d, k, v) == [x \in DOMAIN d \cup {k} |-> IF x = k THEN v ELSE d[x]]

DictDel(d, k) == [x \in DOMAIN d \ {k} |-> d[x]]

DictValues(d) == {d[x] : x \in DOMAIN d}

EmptyDict == [x \in {} |-> 0]

\* F(v) with v evaluated once: a bound variable holds a value, where a
\* LET definition or an operator argument is evaluated again each time
\* it is read.
Once(v, F(_)) == CHOOSE r \in {F(x) : x \in {v}} : TRUE

MaxOf(S) == CHOOSE x \in S : \A y \in S : y <= x

MinOf(S) == CHOOSE x \in S : \A y \in S : x <= y

RECURSIVE Sorted(_)
Sorted(S) ==
    IF S = {} THEN <<>> ELSE <<MinOf(S)>> \o Sorted(S \ {MinOf(S)})

RECURSIVE SumSeq(_)
SumSeq(s) == IF s = <<>> THEN 0 ELSE Head(s) + SumSeq(Tail(s))

--------------------------------------------------------------------------
(* Bit-field primitives on a 16-byte word *)

WordBits == 128

BitOf(value, j) == (value \div (2 ^ j)) % 2

IntBits == 31

\* The binary numeral of a Python int (two's complement when negative).
Bits(value) ==
    {j \in 0 .. IntBits - 1 : BitOf(value, j) = 1}
        \cup (IF value < 0 THEN IntBits .. WordBits - 1 ELSE {})

\* value >> n on a numeral
Shr(bits, n) == {b - n : b \in {x \in bits : x >= n}}

\* value ^ (2 ** length - 1): the low `length` bits flipped
XorMask(value, length) ==
    LET low == value % (2 ^ length)
    IN  (value - low) + ((2 ^ length - 1) - low)

\* x | (b << k) on a numeral
OrBit(bits, b, k) == IF b = 0 THEN bits ELSE bits \cup {k}

RECURSIVE get_bit_range(_, _, _)
get_bit_range(word, lo, hi) ==
    IF lo >= hi THEN 0
    ELSE (IF lo \in word THEN 1 ELSE 0) + 2 * get_bit_range(word, lo + 1, hi)

\* writes the low hi - lo bits of the numeral into bits [lo, hi)
set_bit_range(word, lo, hi, bits) ==
    (word \ (lo .. hi - 1)) \cup {b \in lo .. hi - 1 : b - lo \in bits}

\* set_bit toggles one bit of the word
set_bit(word, i) == IF i \in word THEN word \ {i} ELSE word \cup {i}

--------------------------------------------------------------------------
(* EncodingRange *)

CONSTANT_T == "constant"
OPERAND_T == "operand"
OPERAND_FLAG_T == "operand_flag"
OPERAND_MODIFIER_T == "operand_modifier"
FLAG_T == "flag"
MODIFIER_T == "modifier"
PREDICATE_T == "predicate"
STALL_CYCLES_T == "stall"
YIELD_FLAG_T == "y"
READ_BARRIER_T == "r-bar"
WRITE_BARRIER_T == "w-bar"
BARRIER_MASK_T == "b-mask"
REUSE_MASK_T == "reuse"

EncodingRange(type, start, length, operand_index, name, constant, group_id) ==
    [type |-> type, start |-> start, length |-> length,
     operand_index |-> operand_index, name |-> name, constant |-> constant,
     group_id |-> group_id, inverse |-> FALSE, shift |-> None, offset |-> None]

_find(rngs, type) == SelectSeq(rngs, LAMBDA r : r.type = type)

operand_count(rngs) ==
    MaxOf({0} \cup {rngs[j].operand_index[1] + 1 :
                      j \in {x \in 1 .. Len(rngs) : rngs[x].type = OPERAND_T}})

get_flags(rngs) ==
    LET fl == _find(rngs, FLAG_T) IN [j \in 1 .. Len(fl) |-> fl[j].name[1]]

--------------------------------------------------------------------------
(* InstructionMutationSet *)

\* The state __init__ sets up before _analyse runs.
NewMutationSet(inst) ==
    [inst |-> inst,
     opcode_bits |-> {}, operand_value_bits |-> {},
     operand_modifier_bits |-> {},
     operand_modifier_bit_flag |-> EmptyDict,
     instruction_modifier_bit_flag |-> EmptyDict,
     bit_to_operand |-> EmptyDict, bit_to_shift |-> EmptyDict,
     bit_to_offset |-> EmptyDict,
     predicate_bits |-> {}, modifier_bits |-> {},
     modifier_groups |-> EmptyDict]

reset_modifier_groups(m) == [m EXCEPT !.modifier_groups = EmptyDict]

\* Step 1 of canonicalize_modifier_groups: bits is sorted(modifier_bits),
\* i the (1-based) position, fill_mode/fill_id the loop's locals.
RECURSIVE CanonAssign(_, _, _, _, _)
CanonAssign(bits, i, groups, fill_mode, fill_id) ==
    IF i > Len(bits) THEN groups
    ELSE
        LET bit == bits[i] IN
        IF bit \in DOMAIN groups
        THEN CanonAssign(bits, i + 1, groups, fill_mode, fill_id)
        ELSE
            LET fm == IF fill_mode /\ i # 1 /\ bits[i - 1] # bit - 1
                      THEN FALSE ELSE fill_mode
                fid == IF fm THEN fill_id
                       ELSE MaxOf({0} \cup DictValues(groups)) + 1
            IN  CanonAssign(bits, i + 1, DictSet(groups, bit, fid), TRUE, fid)

\* Step 2 left out: the ids of step 1 stay as they are.
CanonRenumber_Keep(bits, i, groups, num_map, max_num) == groups

\* Step 2: renumber the ids in order of first occurrence.
RECURSIVE CanonRenumber(_, _, _, _, _)
CanonRenumber(bits, i, groups, num_map, max_num) ==
    IF i > Len(bits) THEN groups
    ELSE
        LET bit == bits[i]
            gid == groups[bit]
            fresh == gid \notin DOMAIN num_map
            nm == IF fresh THEN DictSet(num_map, gid, max_num + 1) ELSE num_map
            mx == IF fresh THEN max_num + 1 ELSE max_num
        IN  CanonRenumber(bits, i + 1, DictSet(groups, bit, nm[gid]), nm, mx)

canonicalize_modifier_groups(m) ==
    Once(Sorted(m.modifier_bits), LAMBDA bits :
    Once(CanonAssign(bits, 1, m.modifier_groups, FALSE, 0), LAMBDA assigned :
    [m EXCEPT !.modifier_groups =
                  CanonRenumber(bits, 1, assigned, EmptyDict, 0)]))

--------------------------------------------------------------------------
(* compute_encoding_ranges *)

ControlCodeBase == 105

control_code_ranges ==
    << <<STALL_CYCLES_T, 4>>, <<YIELD_FLAG_T, 1>>, <<READ_BARRIER_T, 3>>,
       <<WRITE_BARRIER_T, 3>>, <<BARRIER_MASK_T, 6>>, <<REUSE_MASK_T, 4>> >>

\* The inner for loop without the look at the seed: the type of the
\* field that holds bit i, or None.
RECURSIVE ControlCodeType_AnySeed(_, _, _, _)
ControlCodeType_AnySeed(inst, i, k, offset) ==
    IF k > Len(control_code_ranges) THEN None
    ELSE IF i >= offset /\ i < offset + control_code_ranges[k][2]
    THEN Some(control_code_ranges[k][1])
    ELSE ControlCodeType_AnySeed(inst, i, k + 1,
                                 offset + control_code_ranges[k][2])

\* The inner for loop over control_code_ranges: the type of the first
\* field that holds bit i and is all zero in the seed, or None.
RECURSIVE ControlCodeType(_, _, _, _)
ControlCodeType(inst, i, k, offset) ==
    IF k > Len(control_code_ranges) THEN None
    ELSE
        LET rtype == control_code_ranges[k][1]
            length == control_code_ranges[k][2]
        IN  IF i >= offset /\ i < offset + length
               /\ get_bit_range(inst, offset, offset + length) = 0
            THEN Some(rtype)
            ELSE ControlCodeType(inst, i, k + 1, offset + length)

HtmlRowBits == 64

\* The range record the loop body builds for bit i before it decides
\* whether to extend the current range (the if/elif chain and the two
\* fallbacks).  A FLAG or OPERAND_FLAG record is pushed on its own.
NewRangeAt(m, i) ==
    IF i \in m.modifier_bits THEN
        IF i \in DOMAIN m.instruction_modifier_bit_flag
        THEN EncodingRange(FLAG_T, i, 1, None,
                           Some(m.instruction_modifier_bit_flag[i]), None, None)
        ELSE EncodingRange(MODIFIER_T, i, 1, None, None, None,
                           Some(m.modifier_groups[i]))
    ELSE IF i \in m.predicate_bits THEN
        EncodingRange(PREDICATE_T, i, 1, None, None, None, None)
    ELSE IF i \in m.operand_value_bits THEN
        EncodingRange(OPERAND_T, i, 1, Some(m.bit_to_operand[i]),
                      None, None, None)
    ELSE IF i \in m.operand_modifier_bits THEN
        IF i \in DOMAIN m.operand_modifier_bit_flag
        THEN EncodingRange(OPERAND_FLAG_T, i, 1, Some(m.bit_to_operand[i]),
                           Some(m.operand_modifier_bit_flag[i]), None, None)
        ELSE EncodingRange(OPERAND_MODIFIER_T, i, 1,
                           Some(m.bit_to_operand[i]), None, None, None)
    ELSE
        LET cc == ControlCodeType(m.inst, i, 1, ControlCodeBase) IN
        IF cc # None
        THEN EncodingRange(cc[1], i, 1, None, None, None, None)
        ELSE EncodingRange(CONSTANT_T, i, 1, None, None, Some({}), None)

\* _push(): append the current range, if there is one.
Push(result, current_range) ==
    IF current_range = None THEN result ELSE Append(result, current_range[1])

\* The extend condition without the row boundary of constants.
Extends_NoRowSplit(current_range, new_range, i) ==
    /\ current_range # None
    /\ new_range.type = current_range[1].type
    /\ new_range.operand_index = current_range[1].operand_index
    /\ (new_range.group_id = None
        \/ new_range.group_id = current_range[1].group_id)

\* Whether bit i, classified as new_range, extends current_range.
Extends(current_range, new_range, i) ==
    /\ current_range # None
    /\ new_range.type = current_range[1].type
    /\ new_range.operand_index = current_range[1].operand_index
    /\ (new_range.type # CONSTANT_T \/ i # HtmlRowBits)
    /\ (new_range.group_id = None
        \/ new_range.group_id = current_range[1].group_id)

\* A flag bit starts and ends its own range without flushing the
\* range before it.
FlagStep_NoFlush(st, new_range) ==
    [result |-> Append(st.result, new_range), current_range |-> None]

\* The flag branches: _push(); current_range = <flag>; _push(); continue
FlagStep(st, new_range) ==
    [result |-> Append(Push(st.result, st.current_range), new_range),
     current_range |-> None]

\* One iteration of the loop over the bits: st = [result, current_range].
RangeStep(m, i, st) ==
    Once(NewRangeAt(m, i), LAMBDA new_range :
    IF new_range.type \in {FLAG_T, OPERAND_FLAG_T}
    THEN FlagStep(st, new_range)
    ELSE
        Once(Extends(st.current_range, new_range, i), LAMBDA ext :
        Once(IF ext
             THEN [st.current_range[1] EXCEPT !.length = @ + 1]
             ELSE new_range, LAMBDA c1 :
        Once(IF c1.shift = None /\ i \in DOMAIN m.bit_to_shift
             THEN [c1 EXCEPT !.shift = Some(m.bit_to_shift[i])] ELSE c1,
             LAMBDA c2 :
        Once(IF c2.offset = None /\ i \in DOMAIN m.bit_to_offset
             THEN [c2 EXCEPT !.offset = Some(m.bit_to_offset[i])] ELSE c2,
             LAMBDA c3 :
        [result |-> IF ext THEN st.result
                    ELSE Push(st.result, st.current_range),
         current_range |->
             Some(IF c3.type = CONSTANT_T
                  THEN [c3 EXCEPT !.constant =
                            Some(OrBit(@[1], IF i \in m.inst THEN 1 ELSE 0,
                                       c3.length - 1))]
                  ELSE c3)])))))

\* for i in range(lo, hi): the iterations in order, the first half
\* evaluated before the second.
RECURSIVE RangeLoop(_, _, _, _)
RangeLoop(m, lo, hi, st) ==
    IF hi <= lo THEN st
    ELSE IF hi = lo + 1 THEN RangeStep(m, lo, st)
    ELSE Once(RangeLoop(m, lo, (lo + hi) \div 2, st), LAMBDA half :
              RangeLoop(m, (lo + hi) \div 2, hi, half))

\* compute_encoding_ranges: the ranges, for the mutation set as
\* canonicalize_modifier_groups leaves it.
compute_encoding_ranges(m) ==
    Once(canonicalize_modifier_groups(m), LAMBDA canonical :
    Once(RangeLoop(canonical, 0, WordBits,
                   [result |-> <<>>, current_range |-> None]),
         LAMBDA st : Push(st.result, st.current_range)))

--------------------------------------------------------------------------
(* EncodingRanges.encode *)

\* The arguments of encode with its defaults.
EncodeDefaults ==
    [sub_operands |-> <<>>, modifiers |-> <<>>, flags |-> {},
     operand_modifiers |-> EmptyDict, operand_flags |-> EmptyDict,
     predicate |-> 7, stall_cycles |-> 15, yield_flag |-> FALSE,
     read_barrier |-> 0, write_barrier |-> 0, barrier_mask |-> 0]

range_vals(a) ==
    [t \in {PREDICATE_T, STALL_CYCLES_T, YIELD_FLAG_T, READ_BARRIER_T,
            WRITE_BARRIER_T, BARRIER_MASK_T} |->
        CASE t = PREDICATE_T -> a.predicate
          [] t = STALL_CYCLES_T -> a.stall_cycles
          [] t = YIELD_FLAG_T -> (IF a.yield_flag THEN 1 ELSE 0)
          [] t = READ_BARRIER_T -> a.read_barrier
          [] t = WRITE_BARRIER_T -> a.write_barrier
          [] t = BARRIER_MASK_T -> a.barrier_mask]

\* The operand value an OPERAND range encodes: offset, inverse, shift.
OperandValue(rng, a) ==
    LET v0 == a.sub_operands[rng.operand_index[1] + 1]
        v1 == IF Truthy(rng.offset) THEN v0 - rng.offset[1] ELSE v0
        v2 == IF rng.inverse THEN XorMask(v1, rng.length) ELSE v1
    IN  IF Truthy(rng.shift) THEN Shr(Bits(v2), rng.shift[1]) ELSE Bits(v2)

\* The if/elif chain of the loop body: the value of the range (as a
\* numeral), or None.
RangeValue(rng, a, modifier_i) ==
    IF rng.type = CONSTANT_T THEN rng.constant
    ELSE IF rng.type = OPERAND_T THEN Some(OperandValue(rng, a))
    ELSE IF rng.type = MODIFIER_T THEN
        IF modifier_i < Len(a.modifiers)
        THEN Some(Bits(a.modifiers[modifier_i + 1])) ELSE None
    ELSE IF rng.type = FLAG_T THEN
        IF rng.name[1] \in a.flags THEN Some(Bits(1)) ELSE None
    ELSE IF rng.type = OPERAND_MODIFIER_T
            /\ rng.operand_index[1] \in DOMAIN a.operand_modifiers THEN
        Some(Bits(a.operand_modifiers[rng.operand_index[1]]))
    ELSE IF rng.type = OPERAND_FLAG_T
            /\ rng.operand_index[1] \in DOMAIN a.operand_flags THEN
        Some(Bits(IF rng.name[1] \in a.operand_flags[rng.operand_index[1]]
                  THEN 1 ELSE 0))
    ELSE IF rng.type \in DOMAIN range_vals(a)
    THEN Some(Bits(range_vals(a)[rng.type]))
    ELSE None

\* written[rng.operand_index] = rng.length, done `if rng.operand_index:`
WrittenAfter(written, rng) ==
    IF Truthy(rng.operand_index)
    THEN DictSet(written, rng.operand_index, rng.length)
    ELSE written

RECURSIVE EncodeLoop(_, _, _, _, _, _)
EncodeLoop(rngs, j, a, result, modifier_i, written) ==
    IF j > Len(rngs) THEN result
    ELSE
        LET rng == rngs[j]
            value == RangeValue(rng, a, modifier_i)
            mi == IF rng.type = MODIFIER_T /\ modifier_i < Len(a.modifiers)
                  THEN modifier_i + 1 ELSE modifier_i
        IN  IF value = None \/ value = Some({})
            THEN EncodeLoop(rngs, j + 1, a, result, mi, written)
            ELSE
                LET v == Shr(value[1], DictGet(written, rng.operand_index, 0))
                IN  EncodeLoop(rngs, j + 1, a,
                               set_bit_range(result, rng.start,
                                             rng.start + rng.length, v),
                               mi, WrittenAfter(written, rng))

encode(rngs, a) == EncodeLoop(rngs, 1, a, {}, 0, EmptyDict)

--------------------------------------------------------------------------
(* The disassembler's answers and the assembly parser.  An answer is the   *)
(* text the oracle returns: empty, blank, text the parser rejects, or text *)
(* that parses to an instruction [key, predicate, operands, modifiers],    *)
(* an operand being [value, modifiers] and modifiers a list of tokens.     *)

EmptyText == [text |-> "empty"]

BlankText == [text |-> "blank"]

GarbageText == [text |-> "garbage"]

Asm(inst) == [text |-> "ok", inst |-> inst]

\* asm.strip(): blank text becomes empty
Strip(asm) == IF asm.text = "blank" THEN EmptyText ELSE asm

\* len(asm) == 0
IsEmpty(asm) == asm.text = "empty"

\* InstructionParser.parseInstruction raises on text it cannot parse
ParseRaises(asm) == asm.text # "ok"

parseInstruction(asm) == asm.inst

get_key(inst) == inst.key

get_flat_operands(inst) == inst.operands

\* Operand.compare: whether the two operands hold the same value
compare(a, b) == a.value = b.value

--------------------------------------------------------------------------
(* Token multisets (collections.Counter keeps insertion order) *)

Count(list, t) == Cardinality({j \in 1 .. Len(list) : list[j] = t})

\* the distinct elements of list in order of first occurrence
KeysInOrder(list) ==
    SelectSeq([j \in 1 .. Len(list) |->
                  IF \E x \in 1 .. j - 1 : list[x] = list[j]
                  THEN None ELSE Some(list[j])],
              LAMBDA o : o # None)

\* The difference over the keys of mutated alone: a token that only
\* original holds is left out.
DifferenceItems_MutatedKeys(original, mutated) ==
    LET keys == KeysInOrder(mutated)
    IN  [j \in 1 .. Len(keys) |->
            [name |-> keys[j][1],
             count |-> Count(mutated, keys[j][1]) - Count(original, keys[j][1])]]

\* difference = Counter(mutated); difference.subtract(original);
\* difference.items(): the keys of mutated first, then those only in original
DifferenceItems(original, mutated) ==
    LET keys == KeysInOrder(mutated \o original)
    IN  [j \in 1 .. Len(keys) |->
            [name |-> keys[j][1],
             count |-> Count(mutated, keys[j][1]) - Count(original, keys[j][1])]]

\* the loop of analyse_modifiers over difference.items()
RECURSIVE AnalyseItems(_, _, _)
AnalyseItems(items, j, st) ==
    IF j > Len(items) THEN st
    ELSE
        LET count == items[j].count
            name == items[j].name
        IN  IF count = 0 THEN AnalyseItems(items, j + 1, st)
            ELSE IF count <= 0
            THEN AnalyseItems(items, j + 1,
                    [effected |-> TRUE, not_flag |-> TRUE,
                     flag_candidate |-> None])
            ELSE IF count = 1 /\ ~st.not_flag
            THEN AnalyseItems(items, j + 1,
                    IF st.flag_candidate = None
                    THEN [st EXCEPT !.effected = TRUE,
                                    !.flag_candidate = Some(name)]
                    ELSE [effected |-> TRUE, not_flag |-> TRUE,
                          flag_candidate |-> None])
            ELSE AnalyseItems(items, j + 1, [st EXCEPT !.effected = TRUE])

\* analyse_modifiers returns (effected, flag_candidate)
analyse_modifiers(original, mutated) ==
    LET st == AnalyseItems(DifferenceItems(original, mutated), 1,
                           [effected |-> FALSE, not_flag |-> FALSE,
                            flag_candidate |-> None])
    IN  [effected |-> st.effected, flag |-> st.flag_candidate]

--------------------------------------------------------------------------
(* InstructionMutationSet._analyse *)

OpcodeRegionEnd == 12

\* The loop over zip(mutated_operands, parsed_operands): i is the
\* 1-based position, st = [m, operand_effected].
RECURSIVE AnalyseOperands(_, _, _, _, _)
AnalyseOperands(mutated_operands, parsed_operands, i_bit, i, st) ==
    IF i > Len(mutated_operands) \/ i > Len(parsed_operands) THEN st
    ELSE
        LET a == mutated_operands[i]
            b == parsed_operands[i]
            r == analyse_modifiers(b.modifiers, a.modifiers)
            m == st.m
            m1 == IF r.effected
                  THEN [m EXCEPT !.bit_to_operand = DictSet(@, i_bit, i - 1),
                                 !.operand_modifier_bits = @ \cup {i_bit}]
                  ELSE m
            m2 == IF r.flag # None
                  THEN [m1 EXCEPT !.operand_modifier_bit_flag =
                                      DictSet(@, i_bit, r.flag[1])]
                  ELSE m1
        IN  AnalyseOperands(mutated_operands, parsed_operands, i_bit, i + 1,
                IF ~compare(a, b)
                THEN [m |-> [m EXCEPT !.operand_value_bits = @ \cup {i_bit},
                                      !.bit_to_operand = DictSet(@, i_bit, i - 1)],
                      operand_effected |-> TRUE]
                ELSE [m |-> m2,
                      operand_effected |-> st.operand_effected \/ r.effected])

\* The except branch of the parse: the bit is logged and skipped, with
\* the bit wrongly recorded as an opcode bit.
AnalyseUnparsed_AsOpcode(m, i_bit) == [m EXCEPT !.opcode_bits = @ \cup {i_bit}]

\* The except branch of the parse: the bit is logged and skipped.
AnalyseUnparsed(m, i_bit) == m

\* The instruction modifiers, looked at for every bit.
AnalyseInstructionModifiers_AnyBit(m, seed, mutated_parsed, i_bit) ==
    LET r == analyse_modifiers(seed.modifiers, mutated_parsed.modifiers)
        m1 == IF r.effected
              THEN [m EXCEPT !.modifier_bits = @ \cup {i_bit}] ELSE m
    IN  IF r.flag # None
        THEN [m1 EXCEPT !.instruction_modifier_bit_flag =
                            DictSet(@, i_bit, r.flag[1])]
        ELSE m1

\* The instruction modifiers, looked at outside the opcode region only.
AnalyseInstructionModifiers(m, seed, mutated_parsed, i_bit) ==
    IF i_bit > OpcodeRegionEnd
    THEN LET r == analyse_modifiers(seed.modifiers, mutated_parsed.modifiers)
             m1 == IF r.effected
                   THEN [m EXCEPT !.modifier_bits = @ \cup {i_bit}] ELSE m
         IN  IF r.flag # None
             THEN [m1 EXCEPT !.instruction_modifier_bit_flag =
                                 DictSet(@, i_bit, r.flag[1])]
             ELSE m1
    ELSE m

\* One iteration of the loop of _analyse over self.mutations.
AnalyseTriple(m, seed, i_bit, asm0) ==
    LET asm == Strip(asm0) IN
    IF IsEmpty(asm) THEN [m EXCEPT !.opcode_bits = @ \cup {i_bit}]
    ELSE IF ParseRaises(asm) THEN AnalyseUnparsed(m, i_bit)
    ELSE
        LET mutated_parsed == parseInstruction(asm) IN
        IF get_key(seed) # get_key(mutated_parsed)
        THEN [m EXCEPT !.opcode_bits = @ \cup {i_bit}]
        ELSE
            LET m1 == IF seed.predicate # mutated_parsed.predicate
                      THEN [m EXCEPT !.predicate_bits = @ \cup {i_bit}]
                      ELSE m
                st == AnalyseOperands(get_flat_operands(mutated_parsed),
                                      get_flat_operands(seed), i_bit, 1,
                                      [m |-> m1, operand_effected |-> FALSE])
            IN  IF st.operand_effected THEN st.m
                ELSE AnalyseInstructionModifiers(st.m, seed, mutated_parsed,
                                                 i_bit)

--------------------------------------------------------------------------
(* Range construction and encoding: the classifier states drawn here are   *)
(* the ones _analyse and the refinement passes can leave behind, with the  *)
(* classified bits inside a window of WinLen bits at one of the Anchors    *)
(* (the low modifier region, the bit-64 row boundary, the control codes).  *)

WinLen == 3

Anchors == {62, 104, 108}

Window(a) == a .. a + WinLen - 1

\* What one bit can be: unclassified, modifier, instruction flag,
\* predicate, value of operand 0/1, modifier or flag of operand 1.  One
\* classifier state mixes the classes of one palette.
Palettes ==
    { {"none", "mod", "flag", "op0"},
      {"none", "op0", "op1", "omod1"},
      {"none", "pred", "op1", "oflag1"} }

OperandOfClass(c) == IF c = "op0" THEN 0 ELSE 1

\* The mutation set whose bits are classified by cls.
Classified(inst, cls) ==
    LET W == DOMAIN cls
        With(C) == {b \in W : cls[b] \in C}
    IN  [NewMutationSet(inst) EXCEPT
            !.modifier_bits = With({"mod", "flag"}),
            !.instruction_modifier_bit_flag = [b \in With({"flag"}) |-> "F"],
            !.predicate_bits = With({"pred"}),
            !.operand_value_bits = With({"op0", "op1"}),
            !.operand_modifier_bits = With({"omod1", "oflag1"}),
            !.operand_modifier_bit_flag = [b \in With({"oflag1"}) |-> "G"],
            !.bit_to_operand =
                [b \in With({"op0", "op1", "omod1", "oflag1"}) |->
                    OperandOfClass(cls[b])]]

\* A flag is a bit that adds its token when set: it is clear in the seed.
SeedFits(inst, cls) ==
    \A b \in DOMAIN cls : cls[b] \in {"flag", "oflag1"} => b \notin inst

Init ==
    /\ PoolIdle
    /\ ModifiersIdle
    /\ \E a \in Anchors : \E P \in Palettes : \E cls \in [Window(a) -> P] :
         \E inst \in SUBSET Window(a) :
            /\ SeedFits(inst, cls)
            /\ mset = Classified(inst, cls)
    /\ ranges = <<>>
    /\ call = EncodeDefaults
    /\ encoded = {}
    /\ pc = "classified"
    /\ parsed = None
    /\ mutations = <<>>
    /\ oracle = <<>>
    /\ pass = None
    /\ disasm = <<>>
    /\ ispec = None
    /\ request = <<>>
    /\ solved = None
    /\ outcome = None
    /\ tables = None

\* ranges = mset.compute_encoding_ranges()
ComputeEncodingRanges ==
    /\ pc = "classified"
    /\ ranges' = compute_encoding_ranges(mset)
    /\ mset' = canonicalize_modifier_groups(mset)
    /\ pc' = "ranged"
    /\ UNCHANGED <<call, encoded, outsideEnc>>

RangesOfType(rngs, type) ==
    {j \in 1 .. Len(rngs) : rngs[j].type = type}

\* The ranges carrying the value of operand k, in range order.
OperandRanges(rngs, k) ==
    SelectSeq(rngs, LAMBDA r : r.type = OPERAND_T /\ r.operand_index = Some(k))

Field(word, rng) == get_bit_range(word, rng.start, rng.start + rng.length)

\* The value the fields rs hold in word, the first field lowest.
RECURSIVE ConcatFields(_, _)
ConcatFields(word, rs) ==
    IF rs = <<>> THEN 0
    ELSE Field(word, Head(rs))
            + (2 ^ Head(rs).length) * ConcatFields(word, Tail(rs))

FirstField(word, rs, default) ==
    IF rs = <<>> THEN default ELSE Field(word, Head(rs))

\* The encode arguments read back from the seed's fields, with no flags.
DecodeSeed(inst, rngs) ==
    LET omods == _find(rngs, OPERAND_MODIFIER_T)
        mods == _find(rngs, MODIFIER_T)
    IN  [EncodeDefaults EXCEPT
            !.sub_operands =
                [k \in 1 .. operand_count(rngs) |->
                    ConcatFields(inst, OperandRanges(rngs, k - 1))],
            !.modifiers = [j \in 1 .. Len(mods) |-> Field(inst, mods[j])],
            !.operand_modifiers =
                [k \in {omods[j].operand_index[1] : j \in 1 .. Len(omods)} |->
                    FirstField(inst,
                        SelectSeq(omods, LAMBDA r : r.operand_index = Some(k)),
                        0)],
            !.predicate = FirstField(inst, _find(rngs, PREDICATE_T), 7),
            !.stall_cycles = get_bit_range(inst, 105, 109),
            !.yield_flag = (109 \in inst),
            !.read_barrier = get_bit_range(inst, 110, 113),
            !.write_barrier = get_bit_range(inst, 113, 116),
            !.barrier_mask = get_bit_range(inst, 116, 122)]

\* encode(decode(seed))
EncodeSeed ==
    /\ pc = "ranged"
    /\ call' = DecodeSeed(mset.inst, ranges)
    /\ encoded' = encode(ranges, call')
    /\ pc' = "encodedSeed"
    /\ UNCHANGED <<mset, ranges, outsideEnc>>

MaxValue == 7

\* encode with one operand set to v, every other argument at its default
EncodeOperand ==
    /\ pc = "ranged"
    /\ \E k \in 0 .. operand_count(ranges) - 1 : \E v \in 0 .. MaxValue :
         call' = [EncodeDefaults EXCEPT
                    !.sub_operands = [x \in 1 .. operand_count(ranges) |->
                                         IF x = k + 1 THEN v ELSE 0]]
    /\ encoded' = encode(ranges, call')
    /\ pc' = "encodedOperand"
    /\ UNCHANGED <<mset, ranges, outsideEnc>>

\* Range construction alone.
Next == ComputeEncodingRanges

Spec == Init /\ [][Next]_vars

\* Range construction followed by one call of the encoder.
NextEncode == ComputeEncodingRanges \/ EncodeSeed \/ EncodeOperand

SpecEncode == Init /\ [][NextEncode]_vars

--------------------------------------------------------------------------
(* Claims about range construction *)

\* C1: the ranges compute_encoding_ranges returns partition the bits
\* [0, 128): the first starts at 0, each starts where the one before it
\* ends, each holds at least one bit, the last ends at 128; hence the
\* lengths sum to 128, the starts increase strictly, no two overlap.
C1_Partition ==
    pc # "classified" =>
        /\ Len(ranges) >= 1
        /\ ranges[1].start = 0
        /\ \A j \in 1 .. Len(ranges) :
              /\ ranges[j].length >= 1
              /\ ranges[j].start + ranges[j].length <= WordBits
        /\ \A j \in 1 .. Len(ranges) - 1 :
              /\ ranges[j + 1].start = ranges[j].start + ranges[j].length
              /\ ranges[j].start < ranges[j + 1].start
        /\ SumSeq([j \in 1 .. Len(ranges) |-> ranges[j].length]) = WordBits
        /\ \A b \in 0 .. WordBits - 1 :
              Cardinality({j \in 1 .. Len(ranges) :
                             /\ ranges[j].start <= b
                             /\ b < ranges[j].start + ranges[j].length}) = 1

\* Ranges were built from a state with a flag bit right after a
\* modifier bit and an operand bit in the window.
C1_Witness ==
    /\ pc = "ranged"
    /\ \E j \in 1 .. Len(ranges) - 1 :
          ranges[j].type = MODIFIER_T /\ ranges[j + 1].type = FLAG_T
    /\ RangesOfType(ranges, OPERAND_T) # {}

--------------------------------------------------------------------------
(* Claims about the encoder *)

\* The seed's fields name one value per encode argument: at most one
\* PREDICATE range and at most one OPERAND_MODIFIER range per operand.
FieldsUnambiguous(rngs) ==
    /\ Cardinality(RangesOfType(rngs, PREDICATE_T)) <= 1
    /\ \A i, j \in RangesOfType(rngs, OPERAND_MODIFIER_T) :
          rngs[i].operand_index = rngs[j].operand_index => i = j

\* C2: encode(decode(seed)) == seed: encoding the operand values, modifier
\* values, predicate, scheduling and operand-modifier values read from
\* the seed's fields, with no flags, returns the seed word.
C2_RoundTrip ==
    (pc = "encodedSeed" /\ FieldsUnambiguous(ranges)) => encoded = mset.inst

\* The number of bits of operand value the ranges before rs[j] hold.
BitsBefore(rs, j) == SumSeq([x \in 1 .. j - 1 |-> rs[x].length])

\* C3: when the value v of an operand is spread over n >= 2 OPERAND
\* ranges, range r_j receives (v >> bits written before it) mod 2^len(r_j),
\* for every operand index, 0 included.
C3_ShiftAccumulator ==
    pc = "encodedOperand" =>
        \A k \in 0 .. operand_count(ranges) - 1 :
            LET rs == OperandRanges(ranges, k)
                v == call.sub_operands[k + 1]
            IN  Len(rs) >= 2 =>
                    \A j \in 1 .. Len(rs) :
                        Field(encoded, rs[j]) =
                            (v \div (2 ^ BitsBefore(rs, j))) % (2 ^ rs[j].length)

--------------------------------------------------------------------------
(* Initial classification: _analyse over the mutations of a window of      *)
(* bits, the oracle answering each mutation in any way it can.             *)

NumMutations == 2

FirstMutatedBit == 12

Tokens == {"A", "B"}

ModLists == {<<>>} \cup {<<t>> : t \in Tokens}

SeedKey == "SEED"

\* A seed with two operands; the second one and the instruction carry
\* the modifier list mods.
SeedInstruction(mods) ==
    [key |-> SeedKey, predicate |-> 7,
     operands |-> << [value |-> 0, modifiers |-> <<>>],
                     [value |-> 0, modifiers |-> mods] >>,
     modifiers |-> mods]

Seeds == {SeedInstruction(<<>>), SeedInstruction(<<"A">>)}

\* What the disassembler can answer for a mutated word: nothing, blank
\* text, text that does not parse, another instruction, or the seed's
\* instruction with any of predicate, operand values and modifier
\* lists changed.
Answers ==
    {EmptyText, BlankText, GarbageText,
     Asm([key |-> "OTHER", predicate |-> 7, operands |-> <<>>,
          modifiers |-> <<>>])}
    \cup {Asm([key |-> SeedKey, predicate |-> p,
               operands |-> << [value |-> v0, modifiers |-> <<>>],
                               [value |-> 0, modifiers |-> m1] >>,
               modifiers |-> m]) :
            p \in {7, 0}, v0 \in {0, 1}, m1 \in ModLists, m \in ModLists}

InitAnalyse ==
    /\ PoolIdle
    /\ ModifiersIdle
    /\ parsed \in Seeds
    /\ mset = NewMutationSet({})
    /\ mutations = <<>>
    /\ pc = "analyse"
    /\ ranges = <<>>
    /\ call = EncodeDefaults
    /\ encoded = {}
    /\ oracle = <<>>
    /\ pass = None
    /\ disasm = <<>>
    /\ ispec = None
    /\ request = <<>>
    /\ solved = None
    /\ outcome = None
    /\ tables = None

\* One iteration of `for i_bit, inst, asm in self.mutations`.
Analyse ==
    /\ pc = "analyse"
    /\ Len(mutations) < NumMutations
    /\ \E asm \in Answers :
         LET i_bit == FirstMutatedBit + Len(mutations) IN
         /\ mset' = AnalyseTriple(mset, parsed, i_bit, asm)
         /\ mutations' = Append(mutations, [i_bit |-> i_bit, asm |-> asm])
    /\ UNCHANGED <<parsed, pc, outsideAn>>

\* The loop is exhausted: __init__ returns.
AnalyseDone ==
    /\ pc = "analyse"
    /\ Len(mutations) = NumMutations
    /\ pc' = "analysed"
    /\ UNCHANGED <<mset, anVars, outsideAn>>

NextAnalyse == Analyse \/ AnalyseDone

SpecAnalyse == InitAnalyse /\ [][NextAnalyse]_vars

\* The classification sets and maps that hold bit b.
SetsHolding(m, b) ==
    {n \in {"opcode", "operand_value", "operand_modifier", "predicate",
            "modifier", "operand_flag", "instruction_flag", "operand"} :
        CASE n = "opcode" -> b \in m.opcode_bits
          [] n = "operand_value" -> b \in m.operand_value_bits
          [] n = "operand_modifier" -> b \in m.operand_modifier_bits
          [] n = "predicate" -> b \in m.predicate_bits
          [] n = "modifier" -> b \in m.modifier_bits
          [] n = "operand_flag" -> b \in DOMAIN m.operand_modifier_bit_flag
          [] n = "instruction_flag" ->
                b \in DOMAIN m.instruction_modifier_bit_flag
          [] n = "operand" -> b \in DOMAIN m.bit_to_operand}

\* C9: in the initial classification a mutation with empty text marks
\* its bit as opcode and nothing else, one whose text does not parse
\* leaves its bit in no classification set, and in both cases the loop
\* goes on to the remaining triples (it stops only when none is left).
C9_EmptyAndUnparsed ==
    /\ \A j \in 1 .. Len(mutations) :
          LET t == mutations[j] IN
          /\ IsEmpty(Strip(t.asm)) => SetsHolding(mset, t.i_bit) = {"opcode"}
          /\ t.asm = GarbageText => SetsHolding(mset, t.i_bit) = {}
    /\ (pc = "analysed" => Len(mutations) = NumMutations)
    /\ (pc = "analyse" /\ Len(mutations) < NumMutations => ENABLED Analyse)

\* The first mutation did not parse, the second one was empty, and the
\* classification went on to its end.
C9_Witness ==
    /\ pc = "analysed"
    /\ mutations[1].asm = GarbageText
    /\ mutations[2].asm = EmptyText
    /\ mset.opcode_bits = {mutations[2].i_bit}

--------------------------------------------------------------------------
(* The refinement passes of instruction_analysis_pipeline, run on a seed   *)
(* without operands (the operand passes then have nothing to probe).  The  *)
(* classifier starts as _analyse leaves it for the answers the oracle gave *)
(* to the mutations of RefineBits; every other single-bit mutation is      *)
(* answered with the seed's own text.  The oracle is a function of the     *)
(* word: an answer once given is given again.                              *)

NumRefineBits == 2

FirstRefineBit == 13

RefineBits == FirstRefineBit .. FirstRefineBit + NumRefineBits - 1

MaxProbes == 4

RefineSeed(mods) ==
    [key |-> SeedKey, predicate |-> 7, operands |-> <<>>, modifiers |-> mods]

RefineSeeds == {RefineSeed(<<>>), RefineSeed(<<"A">>)}

RefineAnswers(seed) ==
    {EmptyText, GarbageText,
     Asm([key |-> "OTHER", predicate |-> 7, operands |-> <<>>,
          modifiers |-> <<>>])}
    \cup {Asm([seed EXCEPT !.modifiers = m]) : m \in ModLists}

\* _analyse: the whole loop over self.mutations
RECURSIVE AnalyseAll(_, _, _, _)
AnalyseAll(m, seed, triples, j) ==
    IF j > Len(triples) THEN m
    ELSE AnalyseAll(AnalyseTriple(m, seed, triples[j].i_bit, triples[j].asm),
                    seed, triples, j + 1)

InitRefine ==
    \E seed \in RefineSeeds :
    \E answers \in [RefineBits -> RefineAnswers(seed)] :
        /\ PoolIdle
        /\ ModifiersIdle
        /\ parsed = seed
        /\ mutations = [j \in 1 .. NumRefineBits |->
                           [i_bit |-> FirstRefineBit + j - 1,
                            asm |-> answers[FirstRefineBit + j - 1]]]
        /\ mset = AnalyseAll(NewMutationSet({}), seed, mutations, 1)
        /\ oracle = [w \in {set_bit({}, b) : b \in RefineBits} |->
                        answers[CHOOSE b \in RefineBits : w = set_bit({}, b)]]
        /\ pass = None
        /\ disasm = <<>>
        /\ ispec = None
        /\ request = <<>>
        /\ solved = None
        /\ outcome = None
        /\ tables = None
        /\ pc = "flags"
        /\ ranges = <<>>
        /\ call = EncodeDefaults
        /\ encoded = {}

\* disassembler.disassemble(word) may answer a
Disassembles(orc, word, a) ==
    /\ a \in RefineAnswers(parsed)
    /\ IF word \in DOMAIN orc THEN a = orc[word]
       ELSE Cardinality((word \ mset.inst) \cup (mset.inst \ word)) = 1
                => a = Asm(parsed)

ProbesLeft == Cardinality(DOMAIN oracle) < NumRefineBits + MaxProbes

\* analysis_disambiguate_flags: the probes for the flag bits, in the
\* order of the dict (the order _analyse inserted them, ascending)
RECURSIVE FlagMutations(_, _, _)
FlagMutations(m, bits, j) ==
    IF j > Len(bits) THEN <<>>
    ELSE LET bit == bits[j] IN
         << [bit |-> bit, adj |-> bit + 1] >>
         \o (IF bit - 1 \notin DOMAIN m.instruction_modifier_bit_flag
             THEN << [bit |-> bit, adj |-> bit - 1] >> ELSE <<>>)
         \o FlagMutations(m, bits, j + 1)

\* The body of the loop of analysis_disambiguate_flags for one answer:
\* whether the flag at bit is demoted.
FlagDemoted(m, bit, a) ==
    /\ bit \in DOMAIN m.instruction_modifier_bit_flag
    /\ ~IsEmpty(a)
    /\ ~ParseRaises(a)
    /\ get_key(parseInstruction(a)) = get_key(parsed)
    /\ \A j \in 1 .. Len(parseInstruction(a).modifiers) :
          parseInstruction(a).modifiers[j]
              # m.instruction_modifier_bit_flag[bit]

\* The demotion handing the flag's name on to the adjacent bit.
DemoteFlag_MoveFlag(m, bit, adj) ==
    reset_modifier_groups(
        [m EXCEPT !.modifier_bits = @ \cup {adj},
                  !.instruction_modifier_bit_flag =
                      DictSet(DictDel(@, bit), adj, @[bit])])

\* The demotion without the adjacent bit: the flag just leaves the map.
DemoteFlag_FlagOnly(m, bit, adj) ==
    reset_modifier_groups(
        [m EXCEPT !.instruction_modifier_bit_flag = DictDel(@, bit)])

DemoteFlag(m, bit, adj) ==
    reset_modifier_groups(
        [m EXCEPT !.modifier_bits = @ \cup {adj},
                  !.instruction_modifier_bit_flag =
                      DictDel(DictDel(@, bit), adj)])

\* analysis_run_fixedpoint is at the flag pass: about to run it for the
\* first time, or again because the run before reported a change.
FlagsPc == {"flags", "flags_again"}

\* The same at analysis_extend_modifiers.
ExtendPc == {"extend", "extend_again"}

StartFlags ==
    /\ pc \in FlagsPc
    /\ pass = None
    /\ LET muts == FlagMutations(mset,
                       Sorted(DOMAIN mset.instruction_modifier_bit_flag), 1)
       IN  IF muts = <<>>
           THEN pc' = "extend" /\ pass' = None
           ELSE /\ pass' = Some([name |-> "flags", pending |-> muts,
                                 changed |-> FALSE])
                /\ pc' = pc
    /\ disasm' = <<>>
    /\ UNCHANGED <<mset, ranges, oracle, outsideRf>>

FlagsProbe ==
    /\ pass # None
    /\ pass[1].name = "flags"
    /\ pass[1].pending # <<>>
    /\ ProbesLeft
    /\ LET p == Head(pass[1].pending)
           word == set_bit(set_bit(mset.inst, p.bit), p.adj)
       IN  \E a \in RefineAnswers(parsed) :
             /\ Disassembles(oracle, word, a)
             /\ oracle' = DictSet(oracle, word, a)
             /\ disasm' = <<a>>
             /\ mset' = IF FlagDemoted(mset, p.bit, a)
                        THEN DemoteFlag(mset, p.bit, p.adj) ELSE mset
             /\ pass' = Some([pass[1] EXCEPT
                    !.pending = Tail(@),
                    !.changed = @ \/ FlagDemoted(mset, p.bit, a)])
    /\ UNCHANGED <<pc, ranges, outsideRf>>

\* The pass returns changed; analysis_run_fixedpoint runs it again if so.
FlagsReturn ==
    /\ pass # None
    /\ pass[1].name = "flags"
    /\ pass[1].pending = <<>>
    /\ pass' = None
    /\ pc' = IF pass[1].changed THEN "flags_again" ELSE "extend"
    /\ disasm' = <<>>
    /\ UNCHANGED <<mset, ranges, oracle, outsideRf>>

\* analysis_extend_modifiers: for each modifier range the two calls
\* analyse_adj(rng.start, rng.start - 1) and
\* analyse_adj(rng.start, rng.start + rng.length)
RECURSIVE ExtendCalls(_, _)
ExtendCalls(modifier_ranges, j) ==
    IF j > Len(modifier_ranges) THEN <<>>
    ELSE LET rng == modifier_ranges[j] IN
         << [modi_bit |-> rng.start, adj |-> rng.start - 1],
            [modi_bit |-> rng.start, adj |-> rng.start + rng.length] >>
         \o ExtendCalls(modifier_ranges, j + 1)

StartExtend ==
    /\ pc \in ExtendPc
    /\ pass = None
    /\ ranges' = compute_encoding_ranges(mset)
    /\ mset' = canonicalize_modifier_groups(mset)
    /\ pass' = Some([name |-> "extend",
                     pending |-> ExtendCalls(_find(ranges', MODIFIER_T), 1),
                     changed |-> FALSE])
    /\ disasm' = <<>>
    /\ UNCHANGED <<pc, oracle, outsideRf>>

\* analyse_adj past its two probes: the adjacent bit joins the modifier
\* when both answers have the same key and their modifier lists differ.
AdjExtends(original_asm, modi_asm) ==
    /\ get_key(parseInstruction(modi_asm))
           = get_key(parseInstruction(original_asm))
    /\ parseInstruction(modi_asm).modifiers
           # parseInstruction(original_asm).modifiers

\* One call of analyse_adj.  The parse of original_asm is not guarded:
\* text that does not parse raises out of the pass.
ExtendAdj ==
    /\ pass # None
    /\ pass[1].name = "extend"
    /\ pass[1].pending # <<>>
    /\ pc \in ExtendPc
    /\ ProbesLeft
    /\ LET p == Head(pass[1].pending)
           w1 == set_bit(mset.inst, p.modi_bit)
           w2 == set_bit(w1, p.adj)
           rest == [pass[1] EXCEPT !.pending = Tail(@)]
       IN  IF p.adj \in DOMAIN mset.instruction_modifier_bit_flag
           THEN /\ pass' = Some(rest)
                /\ disasm' = <<>>
                /\ UNCHANGED <<mset, oracle, pc>>
           ELSE \E original_asm \in RefineAnswers(parsed) :
                /\ Disassembles(oracle, w1, original_asm)
                /\ IF IsEmpty(original_asm)
                   THEN /\ oracle' = DictSet(oracle, w1, original_asm)
                        /\ disasm' = <<original_asm>>
                        /\ pass' = Some(rest)
                        /\ UNCHANGED <<mset, pc>>
                   ELSE IF ParseRaises(original_asm)
                   THEN /\ oracle' = DictSet(oracle, w1, original_asm)
                        /\ disasm' = <<original_asm>>
                        /\ pc' = "raised"
                        /\ UNCHANGED <<mset, pass>>
                   ELSE \E modi_asm \in RefineAnswers(parsed) :
                        LET orc == DictSet(oracle, w1, original_asm)
                            extends ==
                                /\ ~IsEmpty(modi_asm)
                                /\ ~ParseRaises(modi_asm)
                                /\ AdjExtends(original_asm, modi_asm)
                        IN  /\ Disassembles(orc, w2, modi_asm)
                            /\ oracle' = DictSet(orc, w2, modi_asm)
                            /\ disasm' = <<original_asm, modi_asm>>
                            /\ mset' = IF extends
                                       THEN [mset EXCEPT !.modifier_bits =
                                                             @ \cup {p.adj}]
                                       ELSE mset
                            /\ pass' = Some(
                                 IF extends
                                 THEN [rest EXCEPT !.changed =
                                          p.adj \notin mset.modifier_bits]
                                 ELSE rest)
                            /\ pc' = pc
    /\ UNCHANGED <<ranges, outsideRf>>

\* The pass returns changed, resetting the groups if it is set;
\* analysis_run_fixedpoint runs the pass again if so.
ExtendReturn ==
    /\ pass # None
    /\ pass[1].name = "extend"
    /\ pass[1].pending = <<>>
    /\ pc \in ExtendPc
    /\ mset' = IF pass[1].changed THEN reset_modifier_groups(mset) ELSE mset
    /\ pass' = None
    /\ pc' = IF pass[1].changed THEN "extend_again" ELSE "refined"
    /\ disasm' = <<>>
    /\ UNCHANGED <<ranges, oracle, outsideRf>>

NextRefine ==
    \/ StartFlags
    \/ FlagsProbe
    \/ FlagsReturn
    \/ StartExtend
    \/ ExtendAdj
    \/ ExtendReturn

SpecRefine == InitRefine /\ [][NextRefine]_vars

\* The pipeline is one thread that keeps running.
SpecRefineFair == SpecRefine /\ WF_vars(NextRefine)

\* Some answer of the step now ending was empty or did not parse.
ProbeUninterpretable ==
    \E j \in 1 .. Len(disasm') : IsEmpty(disasm'[j]) \/ ParseRaises(disasm'[j])

\* C10: a step of a refinement pass whose probe is answered with empty
\* text or with text that does not parse leaves the classifier state as
\* it was, and no error leaves the pass.
C10_ProbeSkipped ==
    [][ProbeUninterpretable => mset' = mset /\ pc' # "raised"]_vars

--------------------------------------------------------------------------
(* InstructionSpec and the modifier-value solver.  The solver works on     *)
(* strings, held as sequences of characters: a token is one character, a   *)
(* modifier name is its tokens each followed by ".", so that "A.B." is     *)
(* <<"A", ".", "B", ".">> and "" is <<>>.  A modifier table is a list of   *)
(* [value, name] entries.                                                  *)

\* The string of a one-character token, and back.
Text(t) == <<t>>

TokenOf(s) == s[1]

\* name[:-1]
DropLast(name) == SubSeq(name, 1, Len(name) - 1)

\* s.split("."), the pieces as strings
RECURSIVE SplitDots(_, _)
SplitDots(s, run) ==
    IF s = <<>> THEN <<run>>
    ELSE IF Head(s) = "." THEN <<run>> \o SplitDots(Tail(s), <<>>)
    ELSE SplitDots(Tail(s), Append(run, Head(s)))

\* [operand for operand in modifier_group.split(".") if len(operand) != 0]
GroupTokens(modifier_group) ==
    SelectSeq(SplitDots(modifier_group, <<>>), LAMBDA operand : Len(operand) # 0)

\* collections.Counter(list)
Counter(list) ==
    [t \in {list[j] : j \in 1 .. Len(list)} |-> Count(list, t)]

counter_remove_zeros(counts) ==
    [t \in {x \in DOMAIN counts : counts[x] # 0} |-> counts[t]]

\* sum(counts.values())
RECURSIVE SumValues(_)
SumValues(counts) ==
    IF DOMAIN counts = {} THEN 0
    ELSE LET t == CHOOSE x \in DOMAIN counts : TRUE
         IN  counts[t] + SumValues(DictDel(counts, t))

\* self.all_modifiers as __init__ builds it: (name[:-1], i, value)
RECURSIVE AllModifiers(_, _)
AllModifiers(modifiers, i) ==
    IF i > Len(modifiers) THEN <<>>
    ELSE [j \in 1 .. Len(modifiers[i]) |->
             [name |-> DropLast(modifiers[i][j].name), i |-> i - 1,
              value |-> modifiers[i][j].value]]
         \o AllModifiers(modifiers, i + 1)

\* _get_opcode_modis: the seed's modifiers that are no table's name
_get_opcode_modis(parsed_modifiers, all_modifiers) ==
    {t \in {Text(parsed_modifiers[j]) : j \in 1 .. Len(parsed_modifiers)} :
        \A x \in 1 .. Len(all_modifiers) : all_modifiers[x].name # t}

InstructionSpec(parsed_modifiers, rngs, modifiers) ==
    [parsed |-> [modifiers |-> parsed_modifiers],
     ranges |-> rngs,
     modifiers |-> modifiers,
     all_modifiers |-> AllModifiers(modifiers, 1),
     opcode_modis |-> _get_opcode_modis(parsed_modifiers,
                                        AllModifiers(modifiers, 1))]

\* The second loop of score_match: the group's tokens taken from _counts
\* one by one; None when a count would go below zero.
RECURSIVE ScoreTake(_, _, _)
ScoreTake(_counts, modifier_group, j) ==
    IF j > Len(modifier_group) THEN Some(_counts)
    ELSE LET c == DictGet(_counts, modifier_group[j], 0) - 1 IN
         IF c < 0 THEN None
         ELSE ScoreTake(counter_remove_zeros(
                            DictSet(_counts, modifier_group[j], c)),
                        modifier_group, j + 1)

score_match(counts, modifier_group) ==
    IF \E j \in 1 .. Len(modifier_group) :
          modifier_group[j] \notin DOMAIN counts
    THEN 0
    ELSE LET taken == ScoreTake(counts, modifier_group, 1) IN
         IF taken = None THEN 0
         ELSE SumValues(counts) - SumValues(taken[1])

\* The scan of all_modifiers inside the greedy loop: the first entry
\* of an unused group with the strictly best score.
RECURSIVE BestMatch(_, _, _, _, _)
BestMatch(all_modifiers, j, used_modis, counts, best) ==
    IF j > Len(all_modifiers) THEN best
    ELSE LET e == all_modifiers[j]
             modifier_group == GroupTokens(e.name)
             score == score_match(counts, modifier_group)
         IN  BestMatch(all_modifiers, j + 1, used_modis, counts,
                 IF e.i \notin used_modis /\ score > best.best_match
                 THEN [best_i |-> e.i, best_value |-> e.value,
                       best_match |-> score,
                       best_modi_group |-> modifier_group]
                 ELSE best)

\* for modifier in best_modi_group: counts[modifier] -= 1; remove zeros
RECURSIVE TakeGroup(_, _, _)
TakeGroup(counts, modifier_group, j) ==
    IF j > Len(modifier_group) THEN counts
    ELSE TakeGroup(counter_remove_zeros(
                       DictSet(counts, modifier_group[j],
                               DictGet(counts, modifier_group[j], 0) - 1)),
                   modifier_group, j + 1)

\* while len(counts) != 0 and change
RECURSIVE Greedy(_, _, _, _)
Greedy(all_modifiers, counts, used_modis, modi_values) ==
    IF DOMAIN counts = {}
    THEN [counts |-> counts, modi_values |-> modi_values,
          used_modis |-> used_modis]
    ELSE LET best == BestMatch(all_modifiers, 1, used_modis, counts,
                         [best_i |-> -1, best_value |-> -1, best_match |-> 0,
                          best_modi_group |-> None])
         IN  IF best.best_match = 0
             THEN [counts |-> counts, modi_values |-> modi_values,
                   used_modis |-> used_modis]
             ELSE Greedy(all_modifiers,
                         TakeGroup(counts, best.best_modi_group, 1),
                         used_modis \cup {best.best_i},
                         [modi_values EXCEPT ![best.best_i + 1] =
                                                 best.best_value])

\* The last loop of get_modifier_values: `if i in modi_values` tests the
\* group's index against the list of values.
RECURSIVE Defaults(_, _, _)
Defaults(all_modifiers, j, modi_values) ==
    IF j > Len(all_modifiers) THEN modi_values
    ELSE LET e == all_modifiers[j] IN
         Defaults(all_modifiers, j + 1,
             IF \E x \in 1 .. Len(modi_values) : modi_values[x] = e.i
             THEN modi_values
             ELSE IF Len(e.name) # 0 THEN modi_values
             ELSE [modi_values EXCEPT ![e.i + 1] = e.value])

\* get_modifier_values: None, or Some of (modi_values, used_flags)
get_modifier_values(sp, modifiers) ==
    LET requested == Counter(modifiers)
        counts == [t \in DOMAIN requested \cup sp.opcode_modis |->
                      DictGet(requested, t, 0)
                          - (IF t \in sp.opcode_modis THEN 1 ELSE 0)]
    IN  IF \E t \in sp.opcode_modis : counts[t] < 0 THEN None
        ELSE
            LET g == Greedy(sp.all_modifiers, counts, {},
                            [x \in 1 .. Len(sp.modifiers) |-> 0])
                flags == get_flags(sp.ranges)
                used_flags == {t \in DOMAIN g.counts :
                                  \E x \in 1 .. Len(flags) : Text(flags[x]) = t}
                left == counter_remove_zeros(
                            [t \in DOMAIN g.counts |->
                                IF t \in used_flags THEN g.counts[t] - 1
                                ELSE g.counts[t]])
            IN  IF DOMAIN left # {} THEN None
                ELSE Some([modi_values |->
                               Defaults(sp.all_modifiers, 1, g.modi_values),
                           used_flags |-> used_flags])

\* `modifiers, flags = self.get_modifier_values(modifiers)`: unpacking
\* None raises TypeError before `if modifiers is None` is reached.
InstructionSpec_encode(sp, a) ==
    LET r == get_modifier_values(sp, a.modifiers) IN
    IF r = None THEN [kind |-> "raised", error |-> "TypeError"]
    ELSE LET modifiers == Some(r[1].modi_values)
             flags == {TokenOf(s) : s \in r[1].used_flags}
         IN  IF modifiers = None THEN [kind |-> "returned", value |-> None]
             ELSE [kind |-> "returned",
                   value |-> Some(encode(sp.ranges,
                                  [a EXCEPT !.modifiers = modifiers[1],
                                            !.flags = flags]))]

--------------------------------------------------------------------------
(* The solver on specs with NumGroups modifier fields of FieldLen bits and *)
(* one flag, every table naming every value of its field.                  *)

NumGroups == 2

FieldLen == 1

MaxRequest == 2

FlagName == "F"

Names == {<<>>, <<"A", ".">>, <<"B", ".">>, <<"A", ".", "B", ".">>}

RequestTokens == {Text("A"), Text("B"), Text("X"), Text(FlagName)}

TablesOf(names) ==
    [v \in 1 .. 2 ^ FieldLen |-> [value |-> v - 1, name |-> names[v - 1]]]

FirstFieldBit == 20

\* The classifier state whose ranges are the NumGroups modifier fields,
\* each followed by a flag bit; the flag after the first field is F.
SolverLayout ==
    LET stride == FieldLen + 1
        field(g) == FirstFieldBit + g * stride
        flagbits == {field(g) + FieldLen : g \in 0 .. NumGroups - 1}
    IN  [NewMutationSet({}) EXCEPT
            !.modifier_bits = UNION {field(g) .. field(g) + FieldLen :
                                        g \in 0 .. NumGroups - 1},
            !.instruction_modifier_bit_flag =
                [b \in flagbits |->
                    IF b = FirstFieldBit + FieldLen THEN FlagName ELSE "G"]]

\* The ranges of that layout.
LayoutRanges == compute_encoding_ranges(SolverLayout)

InitSolver ==
    \E names \in [1 .. NumGroups -> [0 .. 2 ^ FieldLen - 1 -> Names]] :
    \E parsed_modifiers \in {<<>>, <<"X">>} :
        /\ PoolIdle
        /\ ModifiersIdle
        /\ ispec = InstructionSpec(parsed_modifiers, LayoutRanges,
                                   [g \in 1 .. NumGroups |->
                                       TablesOf(names[g])])
        /\ request = <<>>
        /\ solved = None
        /\ outcome = None
        /\ tables = None
        /\ pc = "spec"
        /\ mset = SolverLayout
        /\ ranges = <<>>
        /\ call = EncodeDefaults
        /\ encoded = {}
        /\ parsed = None
        /\ mutations = <<>>
        /\ oracle = <<>>
        /\ pass = None
        /\ disasm = <<>>

Requests == UNION {[1 .. n -> RequestTokens] : n \in 0 .. MaxRequest}

GetModifierValues ==
    /\ pc = "spec"
    /\ \E modifiers \in Requests :
         /\ request' = modifiers
         /\ solved' = get_modifier_values(ispec, modifiers)
    /\ pc' = "solved"
    /\ UNCHANGED <<ispec, outcome, outsideSv>>

InstructionSpecEncode ==
    /\ pc = "spec"
    /\ \E modifiers \in Requests :
         /\ request' = modifiers
         /\ outcome' = InstructionSpec_encode(ispec,
                           [EncodeDefaults EXCEPT !.modifiers = modifiers])
    /\ pc' = "encodedSpec"
    /\ UNCHANGED <<ispec, solved, outsideSv>>

NextSolver == GetModifierValues \/ InstructionSpecEncode

SpecSolver == InitSolver /\ [][NextSolver]_vars

\* The name of table's entry at value.
NameAt(table, value) ==
    LET j == CHOOSE x \in 1 .. Len(table) : table[x].value = value
    IN  table[j].name

\* How often token t is explained by a solver result.
Explained(sp, r, t) ==
    SumSeq([i \in 1 .. Len(sp.modifiers) |->
               Count(GroupTokens(DropLast(
                         NameAt(sp.modifiers[i], r.modi_values[i]))), t)])
    + (IF t \in r.used_flags THEN 1 ELSE 0)
    + (IF t \in sp.opcode_modis THEN 1 ELSE 0)

\* C4: when get_modifier_values succeeds, the tokens of the names at the
\* returned values, the returned flags and opcode_modis together are
\* exactly the requested multiset.
C4_SolverExplainsRequest ==
    pc = "solved" /\ solved # None =>
        \A t \in RequestTokens \cup {Text("G")} :
            Explained(ispec, solved[1], t) = Count(request, t)

\* C5: when the solver fails, InstructionSpec.encode returns None: it
\* neither raises nor produces a word.
C5_EncodeReturnsNone ==
    pc = "encodedSpec" /\ get_modifier_values(ispec, request) = None =>
        outcome = [kind |-> "returned", value |-> None]

--------------------------------------------------------------------------
(* Modifier enumeration.  A table entry's name is a string as above.  The  *)
(* disassembler is a function from words to answers.                       *)

\* ".".join([name] * count) + "."
RECURSIVE Repeat(_, _)
Repeat(name, count) ==
    IF count = 0 THEN <<>> ELSE <<name, ".">> \o Repeat(name, count - 1)

\* The loop over difference.items() that builds the result string.
RECURSIVE DifferenceName(_, _)
DifferenceName(items, j) ==
    IF j > Len(items) THEN <<>>
    ELSE (IF items[j].name = "" \/ items[j].count <= 0 THEN <<>>
          ELSE Repeat(items[j].name, items[j].count))
         \o DifferenceName(items, j + 1)

find_modifier_difference(original, mutated) ==
    DifferenceName(DifferenceItems(original, mutated), 1)

\* The keys of a Counter that are not in list, one after the other.
RECURSIVE OtherKeys(_, _)
OtherKeys(counts, list) ==
    LET rest == {k \in DOMAIN counts : \A j \in 1 .. Len(list) : list[j] # k}
    IN  IF rest = {} THEN <<>>
        ELSE LET k == CHOOSE x \in rest : TRUE
             IN  <<k>> \o OtherKeys(DictDel(counts, k), list)

\* The same with the basis added to the decoding instead of subtracted.
basis_find_modifier_difference_Added(basis, mutated) ==
    Once(OtherKeys(basis, mutated), LAMBDA others :
    Once(KeysInOrder(mutated) \o [j \in 1 .. Len(others) |-> Some(others[j])],
         LAMBDA keys :
    Once([j \in 1 .. Len(keys) |->
             [name |-> keys[j][1],
              count |-> Count(mutated, keys[j][1])
                          + DictGet(basis, keys[j][1], 0)]] \o <<>>,
         LAMBDA items : DifferenceName(items, 1))))

\* basis_find_modifier_difference: the tokens of mutated beyond the basis
basis_find_modifier_difference(basis, mutated) ==
    Once(OtherKeys(basis, mutated), LAMBDA others :
    Once(KeysInOrder(mutated) \o [j \in 1 .. Len(others) |-> Some(others[j])],
         LAMBDA keys :
    Once([j \in 1 .. Len(keys) |->
             [name |-> keys[j][1],
              count |-> Count(mutated, keys[j][1])
                          - DictGet(basis, keys[j][1], 0)]] \o <<>>,
         LAMBDA items : DifferenceName(items, 1))))

\* A piece of s.split(".") as a token; the empty piece is "".
Piece(run) == IF run = <<>> THEN "" ELSE run[1]

\* basis = Counter(first_modis); for modi in first_difference.split("."):
\* basis[modi] -= 1
RECURSIVE BasisTake(_, _, _)
BasisTake(basis, pieces, j) ==
    IF j > Len(pieces) THEN basis
    ELSE BasisTake(DictSet(basis, Piece(pieces[j]),
                           DictGet(basis, Piece(pieces[j]), 0) - 1),
                   pieces, j + 1)

\* "INVALID" in mod, for a token (the name's dots split it into tokens)
is_invalid_OnlyINVALID(mod) ==
    \E j \in 1 .. Len(mod) : mod[j] \in {"INVALID"}

\* "INVALID" in mod or "??" in mod
is_invalid(mod) ==
    \E j \in 1 .. Len(mod) : mod[j] \in {"INVALID", "??"}

\* self.encode(operand_values, values) with operand_values all zero
EncodeProbe(rngs, values) ==
    encode(rngs, [EncodeDefaults EXCEPT
                     !.sub_operands = [k \in 1 .. operand_count(rngs) |-> 0],
                     !.modifiers = values])

\* The word enumerate_mod probes for the modifier values `values`.
ProbeWord(rngs, values) == EncodeProbe(rngs, values)

\* The loop of enumerate_mod over the answers: (i, name) for those that
\* parse.
RECURSIVE EnumNames(_, _, _)
EnumNames(disasms, basis, i) ==
    IF i > Len(disasms) THEN <<>>
    ELSE (IF ParseRaises(disasms[i]) THEN <<>>
          ELSE << [value |-> i - 1,
                   name |-> basis_find_modifier_difference(basis,
                                parseInstruction(disasms[i]).modifiers)] >>)
         \o EnumNames(disasms, basis, i + 1)

\* The basis without the subtraction: all of first_modis.
EnumBasis_FirstModis(first_modis, second_modis) == Counter(first_modis)

\* basis: first_modis less the tokens of first_difference
EnumBasis(first_modis, second_modis) ==
    Once(find_modifier_difference(second_modis, first_modis),
         LAMBDA first_difference :
    counter_remove_zeros(BasisTake(Counter(first_modis),
                                   SplitDots(first_difference, <<>>), 1)))

\* enumerate_mod: None, or Some(list of [value, name]).  (The answers
\* are concatenated with <<>> so that TLC holds them as a tuple and
\* encodes each probe once.)
enumerate_mod(disassembler, rngs, initial_values, modifier, idx) ==
    Once([v \in 1 .. 2 ^ modifier.length |->
             disassembler[ProbeWord(rngs,
                 [initial_values EXCEPT ![idx + 1] = v - 1])]] \o <<>>,
         LAMBDA disasms :
    IF ParseRaises(disasms[1]) \/ ParseRaises(disasms[2]) THEN None
    ELSE Once(EnumBasis(parseInstruction(disasms[1]).modifiers,
                        parseInstruction(disasms[2]).modifiers),
              LAMBDA basis : Some(EnumNames(disasms, basis, 1))))

\* itertools.product(*val_ranges): the last position varies fastest
RECURSIVE Product(_)
Product(val_ranges) ==
    IF val_ranges = <<>> THEN << <<>> >>
    ELSE LET rest == Product(Tail(val_ranges))
             first == Head(val_ranges)
         IN  [n \in 1 .. Len(first) * Len(rest) |->
                 << first[((n - 1) \div Len(rest)) + 1] >>
                     \o rest[((n - 1) % Len(rest)) + 1]] \o <<>>

\* results: the enumerations that are not None, in the order of the bases
RECURSIVE DependentResults(_, _, _, _, _, _)
DependentResults(disassembler, rngs, modifiers, idx, bases, j) ==
    IF j > Len(bases) THEN <<>>
    ELSE Once(enumerate_mod(disassembler, rngs, bases[j],
                            modifiers[idx + 1], idx),
              LAMBDA mods : IF mods # None THEN <<mods[1]>> ELSE <<>>)
         \o DependentResults(disassembler, rngs, modifiers, idx, bases,
                             j + 1)

\* valid = [name for val, name in res if val == probe_val and not invalid]
ValidNames(res, probe_val) ==
    SelectSeq(res, LAMBDA e : e.value = probe_val /\ ~is_invalid(e.name))

\* The inner loop over results: the first one with a valid name.
RECURSIVE FirstValid(_, _, _)
FirstValid(results, probe_val, j) ==
    IF j > Len(results) THEN <<>>
    ELSE IF Len(ValidNames(results[j], probe_val)) # 0
    THEN << [value |-> probe_val,
             name |-> ValidNames(results[j], probe_val)[1].name] >>
    ELSE FirstValid(results, probe_val, j + 1)

RECURSIVE RealMods(_, _, _)
RealMods(results, probe_val, length) ==
    IF probe_val >= 2 ^ length THEN <<>>
    ELSE FirstValid(results, probe_val, 1)
         \o RealMods(results, probe_val + 1, length)

enumerate_dependent_mod(disassembler, rngs, modifiers, idx) ==
    Once(Product([i \in 1 .. Len(modifiers) |->
                     IF i - 1 # idx
                     THEN [v \in 1 .. 2 ^ modifiers[i].length |-> v - 1]
                     ELSE <<0>>] \o <<>>),
         LAMBDA bases :
    Once(DependentResults(disassembler, rngs, modifiers, idx, bases, 1),
         LAMBDA results : RealMods(results, 0, modifiers[idx + 1].length)))

\* _modi_values: the modifier fields read from the seed
SeedModiValues(inst, modifiers) ==
    [j \in 1 .. Len(modifiers) |->
        get_bit_range(inst, modifiers[j].start,
                      modifiers[j].start + modifiers[j].length)] \o <<>>

\* The body of the loop of enumerate_modifiers for field modifier_i.
EnumerateField(disassembler, rngs, modifiers, _modi_values, modifier_i) ==
    Once(enumerate_mod(disassembler, rngs, _modi_values,
                       modifiers[modifier_i + 1], modifier_i),
         LAMBDA mod_result :
    IF mod_result = None THEN <<>>
    ELSE IF \E j \in 1 .. Len(mod_result[1]) :
                is_invalid(mod_result[1][j].name)
    THEN enumerate_dependent_mod(disassembler, rngs, modifiers, modifier_i)
    ELSE mod_result[1])

enumerate_modifiers(disassembler, rngs, inst) ==
    Once(_find(rngs, MODIFIER_T), LAMBDA modifiers :
    Once(SeedModiValues(inst, modifiers), LAMBDA _modi_values :
    [i \in 1 .. Len(modifiers) |->
        EnumerateField(disassembler, rngs, modifiers, _modi_values, i - 1)]
    \o <<>>))

--------------------------------------------------------------------------
(* Enumeration of the NumGroups fields of the layout above, for every      *)
(* oracle over the probed words.  The seed is the word probed for its own  *)
(* modifier values, or that word with the flag F set.                      *)

EnumModLists ==
    {<<>>, <<"A">>, <<"A", "B">>, <<"??">>, <<"A", "INVALID">>}

EnumInstruction(mods) ==
    [key |-> SeedKey, predicate |-> 7, operands |-> <<>>, modifiers |-> mods]

EnumAnswers == {GarbageText} \cup {Asm(EnumInstruction(m)) : m \in EnumModLists}

EnumValues == [1 .. NumGroups -> 0 .. 2 ^ FieldLen - 1]

\* The words the enumeration can probe.
ProbeWords(rngs) == {ProbeWord(rngs, v) : v \in EnumValues}

SeedWord(rngs, seed_values, flagged) ==
    IF flagged
    THEN set_bit(ProbeWord(rngs, seed_values), FirstFieldBit + FieldLen)
    ELSE ProbeWord(rngs, seed_values)

InitEnum ==
    \E layout \in {LayoutRanges} :
    \E words \in {ProbeWords(layout)} :
    \E seed_values \in EnumValues :
    \E flagged \in {FALSE} \cup {f \in {TRUE} : \A g \in 1 .. NumGroups :
                                                 seed_values[g] = 0} :
            /\ PoolIdle
            /\ ModifiersIdle
            /\ mset = [SolverLayout EXCEPT
                          !.inst = SeedWord(layout, seed_values, flagged)]
            /\ ranges = compute_encoding_ranges(mset)
            /\ oracle \in [words \cup {mset.inst} -> EnumAnswers]
            /\ ~ParseRaises(oracle[mset.inst])
            /\ parsed = parseInstruction(oracle[mset.inst])
            /\ tables = None
            /\ pc = "ranged"
            /\ call = EncodeDefaults
            /\ encoded = {}
            /\ mutations = <<>>
            /\ pass = None
            /\ disasm = <<>>
            /\ ispec = None
            /\ request = <<>>
            /\ solved = None
            /\ outcome = None

EnumerateModifiers ==
    /\ pc = "ranged"
    /\ tables' = Some(enumerate_modifiers(oracle, ranges, mset.inst))
    /\ pc' = "enumerated"
    /\ UNCHANGED outsideEn

NextEnum == EnumerateModifiers

SpecEnum == InitEnum /\ [][NextEnum]_vars

--------------------------------------------------------------------------
(* Claims about modifier enumeration *)

\* The tokens of a name.
NameTokens(name) == SelectSeq(name, LAMBDA x : x # ".")

HasInvalidToken(name) ==
    \E j \in 1 .. Len(name) : name[j] = "INVALID" \/ name[j] = "??"

\* The bases of the dependent enumeration of field idx in their order,
\* each with the plain enumeration of the field under it.
BasesOf(idx) ==
    LET modifiers == _find(ranges, MODIFIER_T)
        bases == SelectSeq(
            [n \in 1 .. Cardinality(EnumValues) |->
                [g \in 1 .. NumGroups |->
                    ((n - 1) \div (2 ^ (FieldLen * (NumGroups - g))))
                        % (2 ^ FieldLen)]],
            LAMBDA b : b[idx + 1] = 0) \o <<>>
    IN  [j \in 1 .. Len(bases) |->
            enumerate_mod(oracle, ranges, bases[j], modifiers[idx + 1], idx)]
        \o <<>>

\* Basis number j names value v validly, with name.
ValidAt(results, j, v, name) ==
    /\ results[j] # None
    /\ \E x \in 1 .. Len(results[j][1]) :
          /\ results[j][1][x].value = v
          /\ results[j][1][x].name = name
          /\ ~HasInvalidToken(name)

\* Basis number j names value v validly.
NamesValidly(results, j, v) ==
    /\ results[j] # None
    /\ \E x \in 1 .. Len(results[j][1]) :
          /\ results[j][1][x].value = v
          /\ ~HasInvalidToken(results[j][1][x].name)

\* The table is the dependent enumeration of field idx.
IsDependentTable(table, idx) ==
    LET results == BasesOf(idx) IN
    /\ \A x \in 1 .. Len(table) :
          \E j \in 1 .. Len(results) :
             /\ ValidAt(results, j, table[x].value, table[x].name)
             /\ \A k \in 1 .. j - 1 :
                   ~NamesValidly(results, k, table[x].value)
    /\ \A v \in 0 .. 2 ^ FieldLen - 1 :
          (\E j \in 1 .. Len(results) : NamesValidly(results, j, v))
              => \E x \in 1 .. Len(table) : table[x].value = v

\* The plain enumeration of field idx from the seed's values.
PlainOf(idx) ==
    enumerate_mod(oracle, ranges,
                  SeedModiValues(mset.inst, _find(ranges, MODIFIER_T)),
                  _find(ranges, MODIFIER_T)[idx + 1], idx)

PlainInvalid(idx) ==
    Once(PlainOf(idx), LAMBDA plain :
        /\ plain # None
        /\ \E x \in 1 .. Len(plain[1]) : HasInvalidToken(plain[1][x].name))

\* C6: no table of enumerate_modifiers holds a name with INVALID or ??;
\* every table lists a value at most once; a field whose plain
\* enumeration has such a name gets the dependent enumeration: each
\* value named by the first basis that names it validly, and left out
\* when no basis does.
C6_NoInvalidNames ==
    pc = "enumerated" =>
        \A i \in 1 .. Len(tables[1]) :
            LET table == tables[1][i] IN
            /\ \A x \in 1 .. Len(table) : ~HasInvalidToken(table[x].name)
            /\ \A x, y \in 1 .. Len(table) :
                  table[x].value = table[y].value => x = y
            /\ PlainInvalid(i - 1) => IsDependentTable(table, i - 1)

\* Field 0 had an invalid name in its plain enumeration and its table
\* names one value from a later basis and leaves the other value out.
C6_Witness ==
    /\ pc = "enumerated"
    /\ PlainInvalid(0)
    /\ Len(tables[1][1]) = 1
    /\ ~ValidAt(BasesOf(0), 1, tables[1][1][1].value, tables[1][1][1].name)

\* The tokens of name are among those of list, counted.
SubMultiset(name, list) ==
    \A j \in 1 .. Len(NameTokens(name)) :
        Count(NameTokens(name), NameTokens(name)[j])
            <= Count(list, NameTokens(name)[j])

\* The value the seed has in field idx.
SeedValue(idx) ==
    SeedModiValues(mset.inst, _find(ranges, MODIFIER_T))[idx + 1]

\* In table idx the entry at the seed's value is within the seed's
\* modifiers.
SeedEntryWithinSeed(idx) ==
    \A x \in 1 .. Len(tables[1][idx + 1]) :
        tables[1][idx + 1][x].value = SeedValue(idx)
            => SubMultiset(tables[1][idx + 1][x].name, parsed.modifiers)

SeedProbeDecodesAsSeed ==
    LET asm == oracle[ProbeWord(ranges,
                   SeedModiValues(mset.inst, _find(ranges, MODIFIER_T)))]
    IN  /\ ~ParseRaises(asm)
        /\ \A t \in {"A", "B", "INVALID", "??"} :
              Count(parseInstruction(asm).modifiers, t)
                  = Count(parsed.modifiers, t)

---------------------------------------------------------------------------
(* main: the worker pool.  Each round main reads the seeds not analysed    *)
(* yet, submits one instruction_analysis_pipeline per seed to a            *)
(* ThreadPoolExecutor and collects the futures in submission order.  A     *)
(* seed is named by its position in the cache.  Whether a seed's pipeline  *)
(* raises is a property of the seed and the oracle, fixed at the start.    *)

NumSeeds == 3

NumParallel == 2

SeedKeys == 1 .. NumSeeds

\* The specs instruction_analysis_pipeline can return for a seed: what
\* it infers depends on the answers the disassembler gives at that time.
PipelineSpecs == {"spec_a", "spec_b"}

\* A future: queued, running, or done with a spec or an exception.
Future(state, spec) == [state |-> state, spec |-> spec]

\* The futures of this round that are in the given state.
FuturesIn(state) ==
    {k \in DOMAIN instruction_futures :
        instruction_futures[k].state = state}

\* The index in instructions of the future main collects next.
Cursor ==
    Cardinality({j \in 1 .. Len(instructions) :
                    instructions[j] \in DOMAIN analysis_result}) + 1

InitPool ==
    /\ raising \in SUBSET SeedKeys
    /\ ModifiersIdle
    /\ instructions = <<>>
    /\ instruction_futures = EmptyDict
    /\ analysis_result = EmptyDict
    /\ isa_json = None
    /\ pc = "find"
    /\ mset = NewMutationSet({})
    /\ ranges = <<>>
    /\ call = EncodeDefaults
    /\ encoded = {}
    /\ parsed = None
    /\ mutations = <<>>
    /\ oracle = <<>>
    /\ pass = None
    /\ disasm = <<>>
    /\ ispec = None
    /\ request = <<>>
    /\ solved = None
    /\ outcome = None
    /\ tables = None

\* The head of the while loop without the `key not in analysis_result`
\* filter.
FindUniques_Unfiltered ==
    /\ pc = "find"
    /\ \E found \in SUBSET SeedKeys :
          /\ instructions' = Sorted(found)
          /\ pc' = IF found = {} THEN "write" ELSE "submit"
    /\ instruction_futures' = EmptyDict
    /\ UNCHANGED <<analysis_result, isa_json, raising, outsidePl>>

\* The head of the while loop: the unique seeds of the cache that are not
\* in analysis_result; none ends the loop.
FindUniques ==
    /\ pc = "find"
    /\ \E found \in SUBSET (SeedKeys \ DOMAIN analysis_result) :
          /\ instructions' = Sorted(found)
          /\ pc' = IF found = {} THEN "write" ELSE "submit"
    /\ instruction_futures' = EmptyDict
    /\ UNCHANGED <<analysis_result, isa_json, raising, outsidePl>>

\* One turn of the submitting loop.
Submit ==
    /\ pc = "submit"
    /\ LET key == instructions[Cardinality(DOMAIN instruction_futures) + 1]
       IN  /\ instruction_futures' =
                 DictSet(instruction_futures, key, Future("pending", None))
           /\ pc' = IF Cardinality(DOMAIN instruction_futures) + 1
                         = Len(instructions)
                    THEN "result" ELSE "submit"
    /\ UNCHANGED <<instructions, analysis_result, isa_json, raising,
                   outsidePl>>

\* A free worker thread takes the oldest queued work item.
WorkerStart ==
    /\ FuturesIn("pending") # {}
    /\ Cardinality(FuturesIn("running")) < NumParallel
    /\ instruction_futures' =
          DictSet(instruction_futures, MinOf(FuturesIn("pending")),
                  Future("running", None))
    /\ UNCHANGED <<pc, instructions, analysis_result, isa_json, raising,
                   outsidePl>>

\* A worker's pipeline returns its spec or raises; the future keeps either.
WorkerFinish ==
    /\ \E key \in FuturesIn("running") : \E spec \in PipelineSpecs :
          instruction_futures' =
              DictSet(instruction_futures, key,
                      IF key \in raising THEN Future("raised", None)
                      ELSE Future("finished", Some(spec)))
    /\ UNCHANGED <<pc, instructions, analysis_result, isa_json, raising,
                   outsidePl>>

\* One turn of the collecting loop: result() waits for the future, then
\* returns its spec or raises its exception again, which nothing catches.
Result ==
    /\ pc = "result"
    /\ Cursor <= Len(instructions)
    /\ LET key == instructions[Cursor]
       IN  \/ /\ instruction_futures[key].state = "finished"
              /\ analysis_result' =
                    DictSet(analysis_result, key,
                            instruction_futures[key].spec[1])
              /\ pc' = IF Cursor = Len(instructions)
                       THEN "shutdown" ELSE "result"
           \/ /\ instruction_futures[key].state = "raised"
              /\ analysis_result' = analysis_result
              /\ pc' = "unwind"
    /\ UNCHANGED <<instructions, instruction_futures, isa_json, raising,
                   outsidePl>>

\* The with block ends after the collecting loop: the executor shuts down
\* and main goes round the while loop again.
Shutdown ==
    /\ pc = "shutdown"
    /\ FuturesIn("pending") \cup FuturesIn("running") = {}
    /\ pc' = "find"
    /\ UNCHANGED <<plVars, outsidePl>>

\* The with block is left by the exception: the executor waits for its
\* work items, then the exception leaves main.
Unwind ==
    /\ pc = "unwind"
    /\ FuturesIn("pending") \cup FuturesIn("running") = {}
    /\ pc' = "crashed"
    /\ UNCHANGED <<plVars, outsidePl>>

\* After the while loop: analysis_result goes to isa.json.
WriteIsa ==
    /\ pc = "write"
    /\ isa_json' = Some(analysis_result)
    /\ pc' = "exited"
    /\ UNCHANGED <<instructions, instruction_futures, analysis_result,
                   raising, outsidePl>>

NextPool ==
    \/ FindUniques
    \/ Submit
    \/ WorkerStart
    \/ WorkerFinish
    \/ Result
    \/ Shutdown
    \/ Unwind
    \/ WriteIsa

SpecPool == InitPool /\ [][NextPool]_vars

---------------------------------------------------------------------------
(* Claims about the worker pool *)

\* The seeds main has handed to a worker.
Submitted == DOMAIN analysis_result \cup DOMAIN instruction_futures

\* C8: a worker that throws affects only its own seed: once main has
\* ended, every other submitted seed's spec is recorded in
\* analysis_result and written to isa.json.
C8_ThrowerIsolated ==
    pc \in {"exited", "crashed"} /\ FuturesIn("raised") # {}
        => \A key \in Submitted \ raising :
              /\ key \in DOMAIN analysis_result
              /\ isa_json # None
              /\ key \in DOMAIN isa_json[1]

---------------------------------------------------------------------------
(* Claims about the refinement passes *)

\* The bit sets a refinement pass works on.
ClassifiedBits(m) == <<m.modifier_bits, m.instruction_modifier_bit_flag>>

\* C11: a pass run directly after a run of the same pass changes nothing
\* in the classifier's bit sets.
C11_SecondRunNoChange ==
    [][(pc \in {"flags_again", "extend_again"})
          => ClassifiedBits(mset') = ClassifiedBits(mset)]_vars

\* C12: analysis_run_fixedpoint ends for the passes it drives: the pass
\* reports no change after finitely many runs (or the probes this model
\* allows are used up).
C12_FixedpointTerminates == <>(pc = "refined" \/ ~ProbesLeft)

--------------------------------------------------------------------------
(* Claims about the shape of the ranges *)

RangeEnd(r) == r.start + r.length

\* The bits lo .. hi are plain modifier bits of one group.
ModifierRun(m, lo, hi) ==
    /\ lo .. hi \subseteq
          m.modifier_bits \ DOMAIN m.instruction_modifier_bit_flag
    /\ \A b \in lo .. hi : m.modifier_groups[b] = m.modifier_groups[lo]

\* C13: no CONSTANT range spans bit 64 (it ends at or before bit 64 or
\* starts at or after it), while modifier bits of one group on both
\* sides of bit 64 lie in a single MODIFIER range.
C13_RowBoundary ==
    pc = "ranged" =>
        /\ \A j \in 1 .. Len(ranges) :
              ranges[j].type = CONSTANT_T =>
                 \/ RangeEnd(ranges[j]) <= HtmlRowBits
                 \/ ranges[j].start >= HtmlRowBits
        /\ \A lo \in 0 .. HtmlRowBits - 1 :
              ModifierRun(mset, lo, HtmlRowBits) =>
                 \E j \in 1 .. Len(ranges) :
                    /\ ranges[j].type = MODIFIER_T
                    /\ ranges[j].start <= lo
                    /\ RangeEnd(ranges[j]) > HtmlRowBits

\* Ranges were built for a modifier field on bits 63 and 64, with a
\* CONSTANT range before it.
C13_Witness ==
    /\ pc = "ranged"
    /\ ModifierRun(mset, HtmlRowBits - 1, HtmlRowBits)
    /\ \E j \in 1 .. Len(ranges) :
          /\ ranges[j].type = MODIFIER_T
          /\ ranges[j].start <= HtmlRowBits - 1
          /\ RangeEnd(ranges[j]) > HtmlRowBits
    /\ ranges[1].type = CONSTANT_T

\* The operand_index values the OPERAND ranges carry.
OperandIndices(rngs) ==
    {rngs[j].operand_index[1] : j \in RangesOfType(rngs, OPERAND_T)}

\* C14: the operand_index values of the OPERAND ranges are exactly
\* 0 .. operand_count() - 1, none missing.
C14_DenseOperands ==
    pc = "ranged" =>
        OperandIndices(ranges) = 0 .. operand_count(ranges) - 1

\* The group_id values the MODIFIER ranges carry.
ModifierGroupIds(rngs) ==
    {rngs[j].group_id : j \in RangesOfType(rngs, MODIFIER_T)}

\* C15: enumerate_modifiers returns one table per MODIFIER group: as many
\* tables as there are distinct group_ids among the MODIFIER ranges, and
\* no two MODIFIER ranges with the same group_id.
C15_OneTablePerGroup ==
    pc = "enumerated" =>
        /\ Len(tables[1]) = Cardinality(ModifierGroupIds(ranges))
        /\ \A i, j \in RangesOfType(ranges, MODIFIER_T) :
              ranges[i].group_id = ranges[j].group_id => i = j

--------------------------------------------------------------------------
(* Claims about the rounds of the driver loop *)

\* C16: each seed key is submitted at most once and its recorded spec
\* is never replaced: a key that is handed to the executor has no
\* future and no recorded spec at that time, the futures of a round are
\* dropped only when each of them has been collected, and an entry of
\* analysis_result stays as it is.
C16_SubmittedOnce ==
    [][/\ \A key \in DOMAIN instruction_futures' :
              (\/ key \notin DOMAIN instruction_futures
               \/ /\ instruction_futures'[key].state = "pending"
                  /\ instruction_futures[key].state # "pending")
                 => key \notin Submitted
       /\ (~(DOMAIN instruction_futures \subseteq DOMAIN instruction_futures')
              => DOMAIN instruction_futures \subseteq DOMAIN analysis_result)
       /\ \A key \in DOMAIN analysis_result :
              /\ key \in DOMAIN analysis_result'
              /\ analysis_result'[key] = analysis_result[key]]_vars

\* A later round has recorded a spec next to the spec of an earlier
\* round.
C16_Witness ==
    /\ DOMAIN analysis_result \ DOMAIN instruction_futures # {}
    /\ DOMAIN analysis_result \cap DOMAIN instruction_futures # {}

--------------------------------------------------------------------------
(* analyse_modifiers on its own, over every pair of short token lists *)

MaxModifiers == 3

ModifierTokens == {"A", "B", "C"}

ModifierLists ==
    UNION {[1 .. n -> ModifierTokens] : n \in 0 .. MaxModifiers}

InitModifiers ==
    /\ PoolIdle
    /\ modifiers_original \in ModifierLists
    /\ modifiers_mutated \in ModifierLists
    /\ modifiers_result = None
    /\ pc = "modifiers"
    /\ mset = NewMutationSet({})
    /\ ranges = <<>>
    /\ call = EncodeDefaults
    /\ encoded = {}
    /\ parsed = None
    /\ mutations = <<>>
    /\ oracle = <<>>
    /\ pass = None
    /\ disasm = <<>>
    /\ ispec = None
    /\ request = <<>>
    /\ solved = None
    /\ outcome = None
    /\ tables = None

\* effected, flag = analyse_modifiers(original, mutated)
AnalyseModifiers ==
    /\ pc = "modifiers"
    /\ modifiers_result' =
          Some(analyse_modifiers(modifiers_original, modifiers_mutated))
    /\ pc' = "compared"
    /\ UNCHANGED <<modifiers_original, modifiers_mutated, outsideAm>>

NextModifiers == AnalyseModifiers

SpecModifiers == InitModifiers /\ [][NextModifiers]_vars

\* The count of token t in (mutated - original).
CountDifference(t) ==
    Count(modifiers_mutated, t) - Count(modifiers_original, t)

\* The tokens with count +1 in (mutated - original).
AddedOnce == {t \in ModifierTokens : CountDifference(t) = 1}

\* The lists that hold the elements of list in any order.
Reorderings(list) ==
    {[j \in 1 .. Len(list) |-> list[f[j]]] :
        f \in {g \in [1 .. Len(list) -> 1 .. Len(list)] :
                  \A x, y \in 1 .. Len(list) : g[x] = g[y] => x = y}}

\* C17: analyse_modifiers returns effected = true iff the token
\* multisets differ, and a flag candidate iff exactly one token has count
\* +1 in (mutated - original) and none has a negative count, the
\* candidate being that token; reordering either list gives the same
\* result.
C17_AnalyseModifiers ==
    pc = "compared" =>
        /\ modifiers_result[1].effected
              = (\E t \in ModifierTokens : CountDifference(t) # 0)
        /\ modifiers_result[1].flag
              = IF /\ Cardinality(AddedOnce) = 1
                   /\ \A t \in ModifierTokens : CountDifference(t) >= 0
                THEN Some(CHOOSE t \in AddedOnce : TRUE)
                ELSE None
        /\ \A o \in Reorderings(modifiers_original) :
              \A m \in Reorderings(modifiers_mutated) :
                 analyse_modifiers(o, m) = modifiers_result[1]

\* The call returned a flag candidate for lists that share a token and
\* hold their tokens in different orders.
C17_Witness ==
    /\ pc = "compared"
    /\ modifiers_result[1].flag # None
    /\ Len(modifiers_original) = 2
    /\ modifiers_original[1] # modifiers_original[2]
    /\ Len(modifiers_mutated) = 3
    /\ modifiers_mutated[1] = modifiers_original[2]

--------------------------------------------------------------------------
(* Claims about the initial classification of modifiers *)

\* The two lists hold the same tokens, each as often.
SameTokens(a, b) == \A t \in Tokens : Count(a, t) = Count(b, t)

\* The answer is the seed's instruction with the value or the modifiers
\* of an operand changed.
OperandAffected(seed, asm) ==
    /\ ~IsEmpty(Strip(asm))
    /\ ~ParseRaises(Strip(asm))
    /\ LET mutated_parsed == parseInstruction(Strip(asm)) IN
       /\ get_key(mutated_parsed) = get_key(seed)
       /\ \E i \in DOMAIN seed.operands \cap DOMAIN mutated_parsed.operands :
             \/ mutated_parsed.operands[i].value # seed.operands[i].value
             \/ ~SameTokens(mutated_parsed.operands[i].modifiers,
                            seed.operands[i].modifiers)

\* The answer is the seed's instruction with other instruction modifiers.
ModifiersAffected(seed, asm) ==
    /\ ~IsEmpty(Strip(asm))
    /\ ~ParseRaises(Strip(asm))
    /\ get_key(parseInstruction(Strip(asm))) = get_key(seed)
    /\ ~SameTokens(parseInstruction(Strip(asm)).modifiers, seed.modifiers)

\* C18: the initial classification puts a bit into modifier_bits or the
\* instruction flag map only if its index is above 12 and its mutation
\* changed no operand value and no operand modifier; a bit whose
\* mutation affected an operand is not in modifier_bits.
C18_ModifierOnlyAboveOpcode ==
    \A j \in 1 .. Len(mutations) :
        LET t == mutations[j] IN
        /\ (\/ t.i_bit \in mset.modifier_bits
            \/ t.i_bit \in DOMAIN mset.instruction_modifier_bit_flag)
              => /\ t.i_bit > 12
                 /\ ~OperandAffected(parsed, t.asm)
                 /\ ModifiersAffected(parsed, t.asm)
        /\ OperandAffected(parsed, t.asm) => t.i_bit \notin mset.modifier_bits

\* The mutation of bit 12 changed the instruction modifiers alone, the
\* one of bit 13 changed them together with an operand's modifiers, and
\* neither bit is a modifier bit.
C18_Witness ==
    /\ pc = "analysed"
    /\ mutations[1].i_bit = 12
    /\ ModifiersAffected(parsed, mutations[1].asm)
    /\ ~OperandAffected(parsed, mutations[1].asm)
    /\ mutations[2].i_bit > 12
    /\ ModifiersAffected(parsed, mutations[2].asm)
    /\ OperandAffected(parsed, mutations[2].asm)
    /\ mset.modifier_bits = {}

--------------------------------------------------------------------------
(* Claims about flag disambiguation *)

\* The answer to the probe of flag bit with an adjacent bit speaks
\* against the flag: it parses, has the seed's key, and its modifiers do
\* not hold the flag's name.
SpeaksAgainstFlag(m, bit, asm) ==
    /\ bit \in DOMAIN m.instruction_modifier_bit_flag
    /\ asm \notin {EmptyText, GarbageText}
    /\ parseInstruction(asm).key = parsed.key
    /\ m.instruction_modifier_bit_flag[bit]
          \notin {parseInstruction(asm).modifiers[j] :
                     j \in 1 .. Len(parseInstruction(asm).modifiers)}

\* Every flag of m has its own FLAG range of length 1 in rngs.
FlagsEmitted(m, rngs) ==
    \A b \in DOMAIN m.instruction_modifier_bit_flag :
        \E j \in 1 .. Len(rngs) :
            /\ rngs[j].type = FLAG_T
            /\ rngs[j].start = b
            /\ rngs[j].length = 1
            /\ rngs[j].name = Some(m.instruction_modifier_bit_flag[b])

\* C19: in the instruction-flag pass an answer that speaks against the
\* flag at bit demotes it: adj joins modifier_bits, bit and adj leave the
\* flag map, the groups are cleared; any other answer leaves the
\* classifier as it is; and every flag still in the map when the ranges
\* are built is a FLAG range of length 1.
C19_FlagDemotion ==
    [][/\ (pass # None /\ pass[1].name = "flags" /\ disasm' # <<>>) =>
             LET p == Head(pass[1].pending)
                 flags == mset.instruction_modifier_bit_flag
                 flags_ == mset'.instruction_modifier_bit_flag
             IN  IF SpeaksAgainstFlag(mset, p.bit, disasm'[1])
                 THEN /\ mset'.modifier_bits
                            = mset.modifier_bits \cup {p.adj}
                      /\ DOMAIN flags_ = DOMAIN flags \ {p.bit, p.adj}
                      /\ \A b \in DOMAIN flags_ : flags_[b] = flags[b]
                      /\ mset'.modifier_groups = EmptyDict
                 ELSE mset' = mset
       /\ (ranges' # <<>> => FlagsEmitted(mset', ranges'))]_vars

\* The ranges were built after the flag pass demoted one of two flag
\* candidates and kept the other.
C19_Witness ==
    /\ ranges # <<>>
    /\ \E b \in DOMAIN mset.instruction_modifier_bit_flag :
          \E j \in RangesOfType(ranges, FLAG_T) : ranges[j].start = b
    /\ \E j \in 1 .. Len(mutations) :
          /\ mutations[j].asm \notin {EmptyText, GarbageText}
          /\ parseInstruction(mutations[j].asm).key = parsed.key
          /\ analyse_modifiers(parsed.modifiers,
                 parseInstruction(mutations[j].asm).modifiers).flag # None
          /\ mutations[j].i_bit
                \notin DOMAIN mset.instruction_modifier_bit_flag
          /\ mutations[j].i_bit \in mset.modifier_bits

--------------------------------------------------------------------------
(* analysis_disambiguate_operand_flags, run once on a seed with one        *)
(* operand.  The classifier starts as _analyse leaves it for the answers   *)
(* the oracle gave to the mutations of RefineBits.                         *)

OperandSeed(mods) ==
    [key |-> SeedKey, predicate |-> 7,
     operands |-> << [value |-> 0, modifiers |-> mods] >>,
     modifiers |-> <<>>]

OperandSeeds == {OperandSeed(<<>>), OperandSeed(<<"A">>)}

OperandAnswers ==
    {EmptyText, GarbageText,
     Asm([key |-> "OTHER", predicate |-> 7, operands |-> <<>>,
          modifiers |-> <<>>])}
    \cup {Asm(OperandSeed(m)) : m \in ModLists}

InitOperandFlags ==
    \E seed \in OperandSeeds :
    \E answers \in [RefineBits -> OperandAnswers] :
        /\ PoolIdle
        /\ ModifiersIdle
        /\ parsed = seed
        /\ mutations = [j \in 1 .. NumRefineBits |->
                           [i_bit |-> FirstRefineBit + j - 1,
                            asm |-> answers[FirstRefineBit + j - 1]]]
        /\ mset = AnalyseAll(NewMutationSet({}), seed, mutations, 1)
        /\ oracle = [w \in {set_bit({}, b) : b \in RefineBits} |->
                        answers[CHOOSE b \in RefineBits : w = set_bit({}, b)]]
        /\ pass = None
        /\ disasm = <<>>
        /\ ispec = None
        /\ request = <<>>
        /\ solved = None
        /\ outcome = None
        /\ tables = None
        /\ pc = "operand_flags"
        /\ ranges = <<>>
        /\ call = EncodeDefaults
        /\ encoded = {}

\* The probes for the operand flag bits, in the order of the dict.
RECURSIVE OperandFlagMutations(_, _, _)
OperandFlagMutations(m, bits, j) ==
    IF j > Len(bits) THEN <<>>
    ELSE LET bit == bits[j] IN
         << [bit |-> bit, adj |-> bit + 1] >>
         \o (IF bit - 1 \notin DOMAIN m.operand_modifier_bit_flag
             THEN << [bit |-> bit, adj |-> bit - 1] >> ELSE <<>>)
         \o OperandFlagMutations(m, bits, j + 1)

\* The body of the loop for one answer: whether the operand flag at bit
\* is taken out of the flag map.
OperandFlagDemoted(m, bit, a) ==
    /\ bit \in DOMAIN m.operand_modifier_bit_flag
    /\ ~IsEmpty(a)
    /\ ~ParseRaises(a)
    /\ get_key(parseInstruction(a)) = get_key(parsed)
    /\ LET mods == get_flat_operands(parseInstruction(a))
                        [m.bit_to_operand[bit] + 1].modifiers
       IN  \A j \in 1 .. Len(mods) :
              mods[j] # m.operand_modifier_bit_flag[bit]

DemoteOperandFlag(m, bit, adj) ==
    [m EXCEPT !.operand_modifier_bit_flag = DictDel(DictDel(@, bit), adj)]

StartOperandFlags ==
    /\ pc = "operand_flags"
    /\ pass = None
    /\ LET muts == OperandFlagMutations(mset,
                       Sorted(DOMAIN mset.operand_modifier_bit_flag), 1)
       IN  IF muts = <<>>
           THEN pc' = "operand_fix" /\ pass' = None
           ELSE /\ pass' = Some([name |-> "operand_flags", pending |-> muts,
                                 changed |-> FALSE])
                /\ pc' = pc
    /\ disasm' = <<>>
    /\ UNCHANGED <<mset, ranges, oracle, outsideRf>>

OperandFlagsProbe ==
    /\ pass # None
    /\ pass[1].name = "operand_flags"
    /\ pass[1].pending # <<>>
    /\ LET p == Head(pass[1].pending)
           word == set_bit(set_bit(mset.inst, p.bit), p.adj)
       IN  \E a \in OperandAnswers :
             /\ word \in DOMAIN oracle => a = oracle[word]
             /\ oracle' = DictSet(oracle, word, a)
             /\ disasm' = <<a>>
             /\ mset' = IF OperandFlagDemoted(mset, p.bit, a)
                        THEN DemoteOperandFlag(mset, p.bit, p.adj) ELSE mset
             /\ pass' = Some([pass[1] EXCEPT
                    !.pending = Tail(@),
                    !.changed = @ \/ OperandFlagDemoted(mset, p.bit, a)])
    /\ UNCHANGED <<pc, ranges, outsideRf>>

\* The pass returns; the pipeline goes on to analysis_operand_fix.
OperandFlagsReturn ==
    /\ pass # None
    /\ pass[1].name = "operand_flags"
    /\ pass[1].pending = <<>>
    /\ pass' = None
    /\ pc' = "operand_fix"
    /\ disasm' = <<>>
    /\ UNCHANGED <<mset, ranges, oracle, outsideRf>>

NextOperandFlags ==
    \/ StartOperandFlags
    \/ OperandFlagsProbe
    \/ OperandFlagsReturn

SpecOperandFlags == InitOperandFlags /\ [][NextOperandFlags]_vars

\* The answer to the probe of operand flag bit with an adjacent bit
\* speaks against the flag: it parses, has the seed's key, and the
\* modifiers of the flag's operand do not hold the flag's name.
SpeaksAgainstOperandFlag(m, bit, asm) ==
    /\ bit \in DOMAIN m.operand_modifier_bit_flag
    /\ asm \notin {EmptyText, GarbageText}
    /\ parseInstruction(asm).key = parsed.key
    /\ LET mods == parseInstruction(asm)
                        .operands[m.bit_to_operand[bit] + 1].modifiers
       IN  m.operand_modifier_bit_flag[bit]
              \notin {mods[j] : j \in 1 .. Len(mods)}

\* C20: the operand-flag pass mirrors the instruction-flag pass: an
\* answer that speaks against the operand flag at bit takes bit out of
\* the operand flag map and puts adj into operand_modifier_bits, as a bit
\* of the same operand.
C20_OperandFlagDemotion ==
    [][(/\ pass # None
        /\ pass[1].name = "operand_flags"
        /\ disasm' # <<>>
        /\ SpeaksAgainstOperandFlag(mset, Head(pass[1].pending).bit,
                                    disasm'[1]))
          => LET p == Head(pass[1].pending) IN
             /\ p.bit \notin DOMAIN mset'.operand_modifier_bit_flag
             /\ p.adj \in mset'.operand_modifier_bits
             /\ p.adj \in DOMAIN mset'.bit_to_operand
             /\ mset'.bit_to_operand[p.adj] = mset.bit_to_operand[p.bit]]_vars

--------------------------------------------------------------------------
(* analysis_modifier_splitting under analysis_run_fixedpoint, on a seed    *)
(* without operands.  The classifier starts as _analyse leaves it for the  *)
(* answers to the mutations of SplitBits when none of them is a flag       *)
(* candidate, and as the passes before leave it when their probes change   *)
(* nothing: the groups are the ones compute_encoding_ranges assigned.      *)

NumSplitBits == 3

SplitBits == FirstRefineBit .. FirstRefineBit + NumSplitBits - 1

SplitModLists == {<<>>, <<"A">>, <<"B">>, <<"A", "B">>}

SplitAnswers(seed) ==
    {EmptyText, GarbageText}
    \cup {Asm([seed EXCEPT !.modifiers = m]) : m \in SplitModLists}

InitSplit ==
    \E seed \in RefineSeeds :
    \E answers \in [SplitBits -> SplitAnswers(seed)] :
    \E triples \in {[j \in 1 .. NumSplitBits |->
                        [i_bit |-> FirstRefineBit + j - 1,
                         asm |-> answers[FirstRefineBit + j - 1]]]} :
    \E analysed \in {AnalyseAll(NewMutationSet({}), seed, triples, 1)} :
        /\ analysed.instruction_modifier_bit_flag = EmptyDict
        /\ PoolIdle
        /\ ModifiersIdle
        /\ parsed = seed
        /\ mutations = triples
        /\ mset = canonicalize_modifier_groups(analysed)
        /\ oracle = [w \in {{}} \cup {set_bit({}, b) : b \in SplitBits} |->
                        IF w = {} THEN Asm(seed)
                        ELSE answers[CHOOSE b \in SplitBits :
                                        w = set_bit({}, b)]]
        /\ pass = None
        /\ disasm = <<>>
        /\ ispec = None
        /\ request = <<>>
        /\ solved = None
        /\ outcome = None
        /\ tables = None
        /\ pc = "split"
        /\ ranges = <<>>
        /\ call = EncodeDefaults
        /\ encoded = {}

\* The calls of analyse_adj for split point i of rng, in order.
SplitPointCalls(rng, i) ==
    << [start |-> rng.start, length |-> rng.length, i |-> i,
        modi_bit |-> rng.start, adj |-> rng.start + i],
       [start |-> rng.start, length |-> rng.length, i |-> i,
        modi_bit |-> rng.start + i - 1, adj |-> rng.start + i],
       [start |-> rng.start, length |-> rng.length, i |-> i,
        modi_bit |-> rng.start, adj |-> rng.start + i] >>

\* for i in range(1, rng.length)
RECURSIVE SplitRangeCalls(_, _)
SplitRangeCalls(rng, i) ==
    IF i >= rng.length THEN <<>>
    ELSE SplitPointCalls(rng, i) \o SplitRangeCalls(rng, i + 1)

\* for rng in modifier_ranges
RECURSIVE SplitCalls(_, _)
SplitCalls(modifier_ranges, j) ==
    IF j > Len(modifier_ranges) THEN <<>>
    ELSE SplitRangeCalls(modifier_ranges[j], 1)
         \o SplitCalls(modifier_ranges, j + 1)

\* analyse_adj of the split pass past its three probes.
SplitIndependent(orig_asm, modi_asm, adj_asm) ==
    /\ ~IsEmpty(orig_asm) /\ ~IsEmpty(modi_asm) /\ ~IsEmpty(adj_asm)
    /\ ~ParseRaises(orig_asm) /\ ~ParseRaises(modi_asm)
    /\ ~ParseRaises(adj_asm)
    /\ LET orig == parseInstruction(orig_asm)
           modi == parseInstruction(modi_asm)
           adj == parseInstruction(adj_asm)
           orig_difference ==
               find_modifier_difference(orig.modifiers, modi.modifiers)
           name == DropLast(orig_difference)
       IN  /\ get_key(orig) = get_key(modi)
           /\ get_key(orig) = get_key(adj)
           /\ Len(orig_difference) # 0
           /\ \A j \in 1 .. Len(name) : name[j] # "."
           /\ orig_difference[1] # "INVALID"
           /\ Len(name) = 1
           /\ \E j \in 1 .. Len(adj.modifiers) : adj.modifiers[j] = name[1]
           /\ adj.modifiers # modi.modifiers
           /\ adj.modifiers # orig.modifiers
           /\ Count(modi.modifiers, name[1]) = Count(adj.modifiers, name[1])

\* split_range with the greatest id in use instead of a fresh one.
split_range_GreatestId(m, start, length, i) ==
    LET next_group_id == MaxOf({0} \cup DictValues(m.modifier_groups))
    IN  [m EXCEPT !.modifier_groups =
            [b \in DOMAIN @ \cup (start + i .. start + length - 1) |->
                IF b \in start + i .. start + length - 1
                THEN next_group_id ELSE @[b]]]

split_range(m, start, length, i) ==
    LET next_group_id == MaxOf({0} \cup DictValues(m.modifier_groups)) + 1
    IN  [m EXCEPT !.modifier_groups =
            [b \in DOMAIN @ \cup (start + i .. start + length - 1) |->
                IF b \in start + i .. start + length - 1
                THEN next_group_id ELSE @[b]]]

SplitPc == {"split", "split_again"}

StartSplit ==
    /\ pc \in SplitPc
    /\ pass = None
    /\ ranges' = compute_encoding_ranges(mset)
    /\ mset' = canonicalize_modifier_groups(mset)
    /\ pass' = Some([name |-> "split",
                     pending |-> SplitCalls(_find(ranges', MODIFIER_T), 1),
                     changed |-> FALSE])
    /\ disasm' = <<>>
    /\ UNCHANGED <<pc, oracle, outsideRf>>

\* One call of analyse_adj; a split point found independent is split
\* and ends the run with True.
SplitAdj ==
    /\ pass # None
    /\ pass[1].name = "split"
    /\ pass[1].pending # <<>>
    /\ LET p == Head(pass[1].pending)
           w1 == set_bit(mset.inst, p.modi_bit)
           w2 == set_bit(w1, p.adj)
       IN  \E modi_asm, adj_asm \in SplitAnswers(parsed) :
             /\ w1 \in DOMAIN oracle => modi_asm = oracle[w1]
             /\ w2 \in DOMAIN oracle => adj_asm = oracle[w2]
             /\ oracle' = DictSet(DictSet(oracle, w1, modi_asm), w2, adj_asm)
             /\ disasm' = <<oracle[mset.inst], modi_asm, adj_asm>>
             /\ IF SplitIndependent(oracle[mset.inst], modi_asm, adj_asm)
                THEN /\ mset' = split_range(mset, p.start, p.length, p.i)
                     /\ pass' = None
                     /\ pc' = "split_again"
                ELSE /\ pass' = Some([pass[1] EXCEPT !.pending = Tail(@)])
                     /\ UNCHANGED <<mset, pc>>
    /\ UNCHANGED <<ranges, outsideRf>>

\* No split point was independent: the run returns False.
SplitReturn ==
    /\ pass # None
    /\ pass[1].name = "split"
    /\ pass[1].pending = <<>>
    /\ pass' = None
    /\ pc' = "split_done"
    /\ disasm' = <<>>
    /\ UNCHANGED <<mset, ranges, oracle, outsideRf>>

NextSplit == StartSplit \/ SplitAdj \/ SplitReturn

SpecSplit == InitSplit /\ [][NextSplit]_vars

\* rngs holds the MODIFIER range [lo, hi).
HasModifierRange(rngs, lo, hi) ==
    \E j \in RangesOfType(rngs, MODIFIER_T) :
        rngs[j].start = lo /\ RangeEnd(rngs[j]) = hi

\* C21: a split point i of the MODIFIER range [start, end) found
\* independent gives the bits [start+i, end) one id no bit had before
\* and leaves every other bit's group as it was, the next range
\* construction emits the MODIFIER ranges [start, start+i) and
\* [start+i, end), and the run ends with that split: the groups change
\* within a run only in its last step.
C21_SplitAssignsFreshGroup ==
    [][(pass # None /\ pass[1].name = "split") =>
         LET p == Head(pass[1].pending)
             groups == mset.modifier_groups
             groups_ == mset'.modifier_groups
             upper == p.start + p.i .. p.start + p.length - 1
         IN  /\ (disasm' # <<>>
                   /\ SplitIndependent(disasm'[1], disasm'[2], disasm'[3]))
                  => /\ DOMAIN groups_ = DOMAIN groups
                     /\ \A b \in upper :
                           /\ groups_[b] = groups_[p.start + p.i]
                           /\ groups_[b] \notin DictValues(groups)
                     /\ \A b \in DOMAIN groups \ upper :
                           groups_[b] = groups[b]
                     /\ HasModifierRange(compute_encoding_ranges(mset'),
                                         p.start, p.start + p.i)
                     /\ HasModifierRange(compute_encoding_ranges(mset'),
                                         p.start + p.i, p.start + p.length)
             /\ (groups_ # groups => pass' = None)]_vars

\* A run split the three-bit field and the next run built the ranges:
\* two MODIFIER ranges follow each other.
C21_Witness ==
    /\ pc = "split_again"
    /\ pass # None
    /\ \E j \in 1 .. Len(ranges) - 1 :
          /\ ranges[j].type = MODIFIER_T
          /\ ranges[j + 1].type = MODIFIER_T
          /\ ranges[j].length + ranges[j + 1].length = NumSplitBits

--------------------------------------------------------------------------
(* Claims about the scheduling fields *)

\* The scheduling fields by their first and last bit.
SchedulingFields ==
    {[type |-> STALL_CYCLES_T, lo |-> 105, hi |-> 108],
     [type |-> YIELD_FLAG_T, lo |-> 109, hi |-> 109],
     [type |-> READ_BARRIER_T, lo |-> 110, hi |-> 112],
     [type |-> WRITE_BARRIER_T, lo |-> 113, hi |-> 115],
     [type |-> BARRIER_MASK_T, lo |-> 116, hi |-> 121],
     [type |-> REUSE_MASK_T, lo |-> 122, hi |-> 125]}

\* No branch of the classification chain takes bit b.
Unclassified(m, b) ==
    b \notin m.modifier_bits \cup m.predicate_bits
              \cup m.operand_value_bits \cup m.operand_modifier_bits

\* The range of rngs that holds bit b.
RangeAt(rngs, b) ==
    rngs[CHOOSE j \in 1 .. Len(rngs) :
            rngs[j].start <= b /\ b < RangeEnd(rngs[j])]

\* The range at b is a CONSTANT that holds the seed's bit b.
ConstantOfSeed(m, rngs, b) ==
    LET r == RangeAt(rngs, b) IN
    /\ r.type = CONSTANT_T
    /\ (b - r.start \in r.constant[1]) = (b \in m.inst)

\* C22: an otherwise unclassified bit of a scheduling field is emitted
\* with the field's type iff the seed's bits of the whole field are all
\* zero, and as CONSTANT holding the seed's bit otherwise; the bits 126
\* and 127 are CONSTANT.
C22_SchedulingFields ==
    pc = "ranged" =>
        /\ \A f \in SchedulingFields : \A b \in f.lo .. f.hi :
              Unclassified(mset, b) =>
                 IF mset.inst \cap (f.lo .. f.hi) = {}
                 THEN RangeAt(ranges, b).type = f.type
                 ELSE ConstantOfSeed(mset, ranges, b)
        /\ \A b \in 126 .. 127 :
              Unclassified(mset, b) => ConstantOfSeed(mset, ranges, b)

\* The seed has a stall bit set, the stall field is a CONSTANT with that
\* bit, and the yield flag next to it has its own range.
C22_Witness ==
    /\ pc = "ranged"
    /\ 108 \in mset.inst
    /\ Unclassified(mset, 108) /\ Unclassified(mset, 109)
    /\ ConstantOfSeed(mset, ranges, 108)
    /\ RangeAt(ranges, 109).type = YIELD_FLAG_T

--------------------------------------------------------------------------
(* Claims about the operand modifier fields of the encoder *)

\* C23: encode writes operand_modifiers[k] into every OPERAND_MODIFIER
\* range of operand k, and into every OPERAND_FLAG range of operand k
\* the bit 1 iff the range's name is in operand_flags[k], whatever was
\* written for the operand before.
C23_OperandModifierWritten ==
    pc \in {"encodedSeed", "encodedOperand"} =>
        \A j \in 1 .. Len(ranges) :
            LET r == ranges[j] IN
            /\ (/\ r.type = OPERAND_MODIFIER_T
                /\ r.operand_index[1] \in DOMAIN call.operand_modifiers)
                  => Field(encoded, r)
                        = call.operand_modifiers[r.operand_index[1]]
                             % (2 ^ r.length)
            /\ (/\ r.type = OPERAND_FLAG_T
                /\ r.operand_index[1] \in DOMAIN call.operand_flags)
                  => (Field(encoded, r) = 1)
                        = (r.name[1] \in call.operand_flags[r.operand_index[1]])

--------------------------------------------------------------------------
(* The values the greedy step chose and the values returned.               *)

\* The greedy loop of get_modifier_values on a request, as the function
\* runs it: counts after opcode_modis were taken, no group used, all zero.
GreedyOf(sp, modifiers) ==
    LET requested == Counter(modifiers)
        counts == [t \in DOMAIN requested \cup sp.opcode_modis |->
                      DictGet(requested, t, 0)
                          - (IF t \in sp.opcode_modis THEN 1 ELSE 0)]
    IN  Greedy(sp.all_modifiers, counts, {},
               [x \in 1 .. Len(sp.modifiers) |-> 0])

\* C24: a group the greedy step assigned keeps its chosen value in the
\* list get_modifier_values returns; the default of the empty-token option
\* is applied only to groups the greedy step did not assign.
C24_ChosenValueKept ==
    pc = "solved" /\ solved # None =>
        LET g == GreedyOf(ispec, request) IN
        \A i \in g.used_modis :
            solved[1].modi_values[i + 1] = g.modi_values[i + 1]

--------------------------------------------------------------------------
(* canonicalize_modifier_groups between the passes that change the groups: *)
(* a split gives the tail of a modifier range the next id, an extension    *)
(* adds a modifier bit and clears the groups, and every pass starts with   *)
(* compute_encoding_ranges, which canonicalizes.                           *)

NumCanonBits == 5

CanonBits == FirstRefineBit .. FirstRefineBit + NumCanonBits - 1

InitCanon ==
    /\ PoolIdle
    /\ ModifiersIdle
    /\ \E bits \in SUBSET CanonBits :
         mset = [NewMutationSet({}) EXCEPT !.modifier_bits = bits]
    /\ ranges = <<>>
    /\ call = EncodeDefaults
    /\ encoded = {}
    /\ pc = "classified"
    /\ parsed = None
    /\ mutations = <<>>
    /\ oracle = <<>>
    /\ pass = None
    /\ disasm = <<>>
    /\ ispec = None
    /\ request = <<>>
    /\ solved = None
    /\ outcome = None
    /\ tables = None

\* analysis_modifier_splitting found the two sides of a modifier range
\* independent at start + i: split_range(rng, i), return True.
SplitRange ==
    /\ pc = "ranged"
    /\ \E j \in RangesOfType(ranges, MODIFIER_T) :
       \E i \in 1 .. ranges[j].length - 1 :
          mset' = split_range(mset, ranges[j].start, ranges[j].length, i)
    /\ pc' = "classified"
    /\ UNCHANGED <<ranges, call, encoded, outsideEnc>>

\* analysis_extend_modifiers found an outside bit to belong to a
\* modifier: modifier_bits.add(adj), then reset_modifier_groups().
ExtendModifierBits ==
    /\ pc = "ranged"
    /\ \E adj \in CanonBits \ mset.modifier_bits :
          mset' = reset_modifier_groups(
                      [mset EXCEPT !.modifier_bits = @ \cup {adj}])
    /\ pc' = "classified"
    /\ UNCHANGED <<ranges, call, encoded, outsideEnc>>

\* A pass that changed nothing; the next one computes the ranges again.
PassUnchanged ==
    /\ pc = "ranged"
    /\ pc' = "classified"
    /\ UNCHANGED <<mset, ranges, call, encoded, outsideEnc>>

NextCanon ==
    \/ ComputeEncodingRanges
    \/ SplitRange
    \/ ExtendModifierBits
    \/ PassUnchanged

SpecCanon == InitCanon /\ [][NextCanon]_vars

\* The lowest bit that carries id in groups.
FirstOccurrence(groups, id) ==
    MinOf({b \in DOMAIN groups : groups[b] = id})

\* groups gives every bit of bits an id, and the ids are 1..k in the
\* order of their first bit.
DenseInOrder(groups, bits) ==
    LET ids == {groups[b] : b \in DOMAIN groups} IN
    /\ DOMAIN groups = bits
    /\ ids = 1 .. Cardinality(ids)
    /\ \A x \in ids : \A y \in ids :
          x < y => FirstOccurrence(groups, x) < FirstOccurrence(groups, y)

\* C25: after canonicalize_modifier_groups every modifier bit has a group
\* id, the ids are exactly 1..k numbered by first occurrence in ascending
\* bit order, bits that had equal (different) ids before have equal
\* (different) ids after, and a second call changes nothing.
C25_Canonical ==
    [][(pc = "classified" /\ pc' = "ranged") =>
          LET before == mset.modifier_groups
              after == mset'.modifier_groups
          IN  /\ DenseInOrder(after, mset.modifier_bits)
              /\ \A b \in DOMAIN before : \A c \in DOMAIN before :
                    (before[b] = before[c]) <=> (after[b] = after[c])
              /\ canonicalize_modifier_groups(mset') = mset']_vars

\* The ranges were computed after two splits: three groups, one of them
\* of two bits, and a gap between two groups.
C25_Witness ==
    /\ pc = "ranged"
    /\ Cardinality(DictValues(mset.modifier_groups)) >= 3
    /\ \E b \in mset.modifier_bits :
          /\ b + 1 \in mset.modifier_bits
          /\ mset.modifier_groups[b] = mset.modifier_groups[b + 1]
    /\ \E b \in CanonBits \ mset.modifier_bits :
          /\ b - 1 \in mset.modifier_bits
          /\ b + 1 \in mset.modifier_bits

--------------------------------------------------------------------------
(* analysis_operand_fix on a seed with one operand whose value field       *)
(* starts at FixStart.  The disassembler's answers are the operand values  *)
(* it decodes from the probes.                                             *)

FixStart == 40

FixLengths == {1, 3, 8}

FixKinds == {"IntIMM", "RegP", "Reg"}

\* the operand values decoded for the probes 0 and 1
MaxFixValue == 4

\* what a single-bit probe decodes to, beyond the encoded value
FixOffsets == {0, 1, 2}

is_pred(oper) == oper.kind = "RegP"

\* whether diff is 2^k for some k in 0 .. MaxFixValue
IsPowerOfTwo(diff) == \E k \in 0 .. MaxFixValue : diff = 2 ^ k

\* int(math.log2(diff)) for such a diff
log2(diff) == CHOOSE k \in 0 .. MaxFixValue : diff = 2 ^ k

InitOperandFix ==
    \E length \in FixLengths : \E kind \in FixKinds :
    \E split \in BOOLEAN : \E modi \in SUBSET {FixStart - 2} :
        /\ PoolIdle
        /\ ModifiersIdle
        /\ parsed = [key |-> SeedKey, predicate |-> 7,
                     operands |-> << [value |-> 0, modifiers |-> <<>>,
                                      kind |-> kind] >>,
                     modifiers |-> <<>>]
        /\ LET bits == (FixStart .. FixStart + length - 1)
                          \cup (IF split THEN {FixStart + length + 1} ELSE {})
           IN  mset = [NewMutationSet({}) EXCEPT
                          !.operand_value_bits = bits,
                          !.bit_to_operand = [b \in bits |-> 0],
                          !.modifier_bits = modi]
        /\ mutations = <<>>
        /\ oracle = <<>>
        /\ pass = None
        /\ disasm = <<>>
        /\ ispec = None
        /\ request = <<>>
        /\ solved = None
        /\ outcome = None
        /\ tables = None
        /\ pc = "operand_fix"
        /\ ranges = <<>>
        /\ call = EncodeDefaults
        /\ encoded = {}

\* The last loop extending by every missing bit, whatever the shift.
ExtendOperand_IgnoreShift(m, rng, missing, shift) ==
    LET added == rng.start - missing .. rng.start - 1 IN
    [m EXCEPT !.operand_value_bits = @ \cup added,
              !.bit_to_operand =
                  [b \in DOMAIN @ \cup added |->
                      IF b \in added THEN rng.operand_index[1] ELSE @[b]]]

\* for i in range(1, ext := missing - shift + 1): add rng.start - i
ExtendOperand(m, rng, missing, shift) ==
    LET added == rng.start - (missing - shift) .. rng.start - 1 IN
    [m EXCEPT !.operand_value_bits = @ \cup added,
              !.bit_to_operand =
                  [b \in DOMAIN @ \cup added |->
                      IF b \in added THEN rng.operand_index[1] ELSE @[b]]]

\* What follows the shift loop: the offset decision and the extension.
\* offsets is the list the loop built, shift what it found (0 if nothing).
FixFinish(m, rng, missing, shift, offsets) ==
    LET n == Len(offsets)
        last == offsets[n]
    IN  IF /\ n >= 8
           /\ Cardinality({j \in 1 .. n : offsets[j] = last}) >= n \div 2
           /\ last # 0
        THEN LET sh == MinOf({j \in 1 .. n : offsets[j] = last}) - 1
                 m1 == [m EXCEPT !.bit_to_offset = DictSet(@, rng.start, last)]
                 m2 == IF sh # 0
                       THEN [m1 EXCEPT !.bit_to_shift = DictSet(@, rng.start, sh)]
                       ELSE m1
             IN  [m |-> ExtendOperand(m2, rng, missing, sh), shift |-> sh,
                  printed |-> "extended"]
        ELSE IF n # 0 /\ last # 0
        THEN [m |-> m, shift |-> shift, printed |-> "failed to correct"]
        ELSE [m |-> ExtendOperand(m, rng, missing, shift), shift |-> shift,
              printed |-> "extended"]

\* ranges = mset.compute_encoding_ranges(); seen = set()
StartOperandFix ==
    /\ pc = "operand_fix"
    /\ pass = None
    /\ ranges' = compute_encoding_ranges(mset)
    /\ mset' = canonicalize_modifier_groups(mset)
    /\ pass' = Some([todo |-> SelectSeq(compute_encoding_ranges(mset),
                                        LAMBDA r : r.type = OPERAND_T),
                     seen |-> {}, stage |-> "range", val_zero |-> None,
                     val_one |-> None, missing |-> 0, shift |-> 0, i |-> 0,
                     offsets |-> <<>>, printed |-> ""])
    /\ UNCHANGED <<pc, oracle, disasm, outsideRf>>

\* One OPERAND range up to the shift loop: the checks that skip it and
\* the probes 0 and 1.
FixRange ==
    /\ pc = "operand_fix"
    /\ pass # None
    /\ pass[1].stage = "range"
    /\ pass[1].todo # <<>>
    /\ LET p == pass[1]
           rng == Head(p.todo)
           oper == get_flat_operands(parsed)[rng.operand_index[1] + 1]
           skip == [p EXCEPT !.todo = Tail(@), !.printed = "",
                             !.val_zero = None, !.val_one = None]
       IN  IF oper.kind # "IntIMM" /\ ~is_pred(oper)
           THEN pass' = Some(skip) /\ mset' = mset
           ELSE IF \/ rng.length <= 2 /\ ~is_pred(oper)
                   \/ rng.operand_index[1] \in p.seen
           THEN pass' = Some(skip) /\ mset' = mset
           ELSE
             \E val_zero \in {None} \cup {Some(v) : v \in 0 .. MaxFixValue} :
             \E val_one \in {None} \cup {Some(v) : v \in 0 .. MaxFixValue} :
               LET seen == p.seen \cup {rng.operand_index[1]}
                   probed == [skip EXCEPT !.seen = seen,
                                          !.val_zero = val_zero,
                                          !.val_one = val_one]
                   d == val_one[1] - val_zero[1]
                   diff == IF is_pred(oper) /\ d < 0 THEN -d ELSE d
               IN  IF val_zero = None \/ val_one = None
                   THEN pass' = Some(probed) /\ mset' = mset
                   ELSE IF diff < 1 \/ ~IsPowerOfTwo(diff) \/ log2(diff) < 1
                   THEN pass' = Some(probed) /\ mset' = mset
                   ELSE IF is_pred(oper)
                   THEN LET f == FixFinish(mset, rng, log2(diff), 0, <<>>) IN
                        /\ mset' = f.m
                        /\ pass' = Some([probed EXCEPT
                                            !.missing = log2(diff),
                                            !.shift = f.shift,
                                            !.printed = f.printed])
                   ELSE /\ mset' = mset
                        /\ pass' = Some([probed EXCEPT
                                            !.todo = p.todo,
                                            !.stage = "shift",
                                            !.missing = log2(diff),
                                            !.shift = 0, !.i = 0,
                                            !.offsets = <<>>])
    /\ UNCHANGED <<pc, ranges, oracle, disasm, outsideRf>>

\* One iteration of the shift loop, and what follows the loop when this
\* was its last one.  The probe 1 << i decodes to None or to 1 << i plus
\* an offset.
ShiftProbe ==
    /\ pc = "operand_fix"
    /\ pass # None
    /\ pass[1].stage = "shift"
    /\ LET p == pass[1]
           rng == Head(p.todo)
           done == [p EXCEPT !.todo = Tail(@), !.stage = "range"]
       IN  \E answer \in {None} \cup {Some(o) : o \in FixOffsets} :
             IF answer = None
             THEN /\ mset' = mset
                  /\ pass' = Some([done EXCEPT
                                      !.printed = "unexpected failure"])
             ELSE
               LET offsets == Append(p.offsets, answer[1])
                   found == answer[1] = 0
                   m1 == IF found
                         THEN [mset EXCEPT !.bit_to_shift =
                                              DictSet(@, rng.start, p.i)]
                         ELSE mset
               IN  IF found \/ p.i = rng.length - 1
                   THEN LET f == FixFinish(m1, rng, p.missing,
                                           IF found THEN p.i ELSE 0, offsets)
                        IN  /\ mset' = f.m
                            /\ pass' = Some([done EXCEPT
                                                !.offsets = offsets,
                                                !.shift = f.shift,
                                                !.printed = f.printed])
                   ELSE /\ mset' = mset
                        /\ pass' = Some([p EXCEPT !.offsets = offsets,
                                                  !.i = @ + 1])
    /\ UNCHANGED <<pc, ranges, oracle, disasm, outsideRf>>

\* the loop over the OPERAND ranges is over
OperandFixReturn ==
    /\ pc = "operand_fix"
    /\ pass # None
    /\ pass[1].stage = "range"
    /\ pass[1].todo = <<>>
    /\ pc' = "operand_fixed"
    /\ pass' = None
    /\ UNCHANGED <<mset, ranges, oracle, disasm, outsideRf>>

NextOperandFix ==
    \/ StartOperandFix
    \/ FixRange
    \/ ShiftProbe
    \/ OperandFixReturn

SpecOperandFix == InitOperandFix /\ [][NextOperandFix]_vars

\* The step finishes the range at the head of todo.
RangeFinished ==
    /\ pass # None
    /\ pass' # None
    /\ Len(pass'[1].todo) < Len(pass[1].todo)

\* The step probed 0 and 1 into the range it finishes, and both decoded.
Probed == pass'[1].val_zero # None /\ pass'[1].val_one # None

\* The decoded delta of the probes 0 and 1 (its size for a predicate).
DecodedDelta ==
    LET d == pass'[1].val_one[1] - pass'[1].val_zero[1]
        rng == Head(pass[1].todo)
        oper == get_flat_operands(parsed)[rng.operand_index[1] + 1]
    IN  IF is_pred(oper) /\ d < 0 THEN -d ELSE d

\* m and n classify every bit alike, but for the operand-value bits
\* added, which belong to operand k.
SameButOperandBits(m, n, added, k) ==
    /\ n.operand_value_bits = m.operand_value_bits \cup added
    /\ DOMAIN n.bit_to_operand = DOMAIN m.bit_to_operand \cup added
    /\ \A b \in DOMAIN n.bit_to_operand :
          n.bit_to_operand[b] = IF b \in added THEN k ELSE m.bit_to_operand[b]
    /\ n.opcode_bits = m.opcode_bits
    /\ n.predicate_bits = m.predicate_bits
    /\ n.operand_modifier_bits = m.operand_modifier_bits
    /\ n.operand_modifier_bit_flag = m.operand_modifier_bit_flag
    /\ n.instruction_modifier_bit_flag = m.instruction_modifier_bit_flag
    /\ n.modifier_bits = m.modifier_bits
    /\ n.modifier_groups = m.modifier_groups

\* C26: when the probes 0 and 1 of an operand field at start decode with
\* a delta of 2^missing, missing >= 1, and the pass does not give up,
\* exactly the bits [start - (missing - shift), start) become value bits
\* of the same operand and no other bit's classification changes; when
\* the delta is below 2 or no power of two, the classifier is unchanged.
C26_OperandFixFrame ==
    [][(RangeFinished /\ Probed) =>
          LET rng == Head(pass[1].todo)
              p == pass'[1]
          IN  /\ (/\ DecodedDelta >= 2
                  /\ IsPowerOfTwo(DecodedDelta)
                  /\ p.printed = "extended")
                    => SameButOperandBits(mset, mset',
                           rng.start - (log2(DecodedDelta) - p.shift)
                               .. rng.start - 1,
                           rng.operand_index[1])
              /\ (DecodedDelta < 2 \/ ~IsPowerOfTwo(DecodedDelta))
                    => mset' = mset]_vars

\* The pass is over; it found a shift of one for a field whose decoded
\* delta asked for two more bits, and extended the field by one bit.
C26_Witness ==
    /\ pc = "operand_fixed"
    /\ DictGet(mset.bit_to_shift, FixStart, 0) = 1
    /\ FixStart - 1 \in mset.operand_value_bits
    /\ FixStart - 2 \notin mset.operand_value_bits
    /\ DictGet(mset.bit_to_operand, FixStart - 1, 9) = 0

--------------------------------------------------------------------------
(* enumerate_operand_modifiers on a seed with one operand: a value bit and *)
(* an operand-modifier field of OperandFieldLen bits, for every oracle     *)
(* over the probed words.                                                  *)

OperandFieldLen == 2

OperandValueBit == 48

OperandFieldStart == 50

OperandLayout ==
    LET field == OperandFieldStart .. OperandFieldStart + OperandFieldLen - 1
    IN  [NewMutationSet({}) EXCEPT
            !.operand_value_bits = {OperandValueBit},
            !.operand_modifier_bits = field,
            !.bit_to_operand = [b \in field \cup {OperandValueBit} |-> 0]]

OperandEnumAnswers ==
    {GarbageText}
    \cup {Asm([key |-> SeedKey, predicate |-> 7,
               operands |-> << [value |-> 0, modifiers |-> m] >>,
               modifiers |-> <<>>]) :
             m \in {<<>>, <<"A">>, <<"B">>, <<"A", "B">>}}

\* self.encode(operand_values, modi_values, operand_modifiers=operand_modis)
OperandProbeWord(rngs, modi_values, operand_index, modi_i) ==
    encode(rngs, [EncodeDefaults EXCEPT
                     !.sub_operands = [k \in 1 .. operand_count(rngs) |-> 0],
                     !.modifiers = modi_values,
                     !.operand_modifiers =
                         DictSet(EmptyDict, operand_index, modi_i)])

InitOperandEnum ==
    \E layout \in {compute_encoding_ranges(OperandLayout)} :
    \E words \in {{OperandProbeWord(layout, <<>>, 0, v) :
                      v \in 0 .. 2 ^ OperandFieldLen - 1}} :
        /\ PoolIdle
        /\ ModifiersIdle
        /\ mset = OperandLayout
        /\ ranges = layout
        /\ oracle \in [words -> OperandEnumAnswers]
        /\ parsed = None
        /\ tables = None
        /\ pc = "ranged"
        /\ call = EncodeDefaults
        /\ encoded = {}
        /\ mutations = <<>>
        /\ pass = None
        /\ disasm = <<>>
        /\ ispec = None
        /\ request = <<>>
        /\ solved = None
        /\ outcome = None

\* The modifiers of operand operand_index in an answer; None where the
\* code raises (the text does not parse, or has no such operand).
OperandModifiersOf(asm, operand_index) ==
    IF ParseRaises(asm) THEN None
    ELSE IF operand_index >= Len(get_flat_operands(parseInstruction(asm)))
    THEN None
    ELSE Some(get_flat_operands(parseInstruction(asm))[operand_index + 1]
                  .modifiers)

\* The loop over the answers: each is compared with comp, and then takes
\* its place (comp = asm).
RECURSIVE OperandNames(_, _, _, _)
OperandNames(disasms, operand_index, comp, i) ==
    IF i > Len(disasms) THEN <<>>
    ELSE LET comp_modifiers == OperandModifiersOf(comp, operand_index)
             asm_modifiers == OperandModifiersOf(disasms[i], operand_index)
         IN  IF comp_modifiers = None \/ asm_modifiers = None
             THEN OperandNames(disasms, operand_index, comp, i + 1)
             ELSE << [value |-> i - 1,
                      name |-> find_modifier_difference(comp_modifiers[1],
                                                        asm_modifiers[1])] >>
                  \o OperandNames(disasms, operand_index, disasms[i], i + 1)

\* The loop over the OPERAND_MODIFIER ranges, from range j on.
RECURSIVE OperandTables(_, _, _, _, _, _)
OperandTables(disassembler, rngs, modi_values, operand_modifiers, j, result) ==
    IF j > Len(operand_modifiers) THEN result
    ELSE LET modifier == operand_modifiers[j]
             k == modifier.operand_index[1]
             disasms == [v \in 1 .. 2 ^ modifier.length |->
                            disassembler[OperandProbeWord(rngs, modi_values,
                                                          k, v - 1)]] \o <<>>
         IN  OperandTables(disassembler, rngs, modi_values, operand_modifiers,
                           j + 1,
                           DictSet(result, k,
                                   OperandNames(disasms, k, disasms[2], 1)))

enumerate_operand_modifiers(disassembler, rngs, inst) ==
    OperandTables(disassembler, rngs,
                  SeedModiValues(inst, _find(rngs, MODIFIER_T)),
                  _find(rngs, OPERAND_MODIFIER_T), 1, EmptyDict)

EnumerateOperandModifiers ==
    /\ pc = "ranged"
    /\ tables' = Some(enumerate_operand_modifiers(oracle, ranges, mset.inst))
    /\ pc' = "operand_enumerated"
    /\ UNCHANGED outsideEn

NextOperandEnum == EnumerateOperandModifiers

SpecOperandEnum == InitOperandEnum /\ [][NextOperandEnum]_vars

\* The modifiers the oracle decodes for operand k at value v of its field.
DecodedAt(k, v) ==
    OperandModifiersOf(oracle[OperandProbeWord(ranges, <<>>, k, v)], k)

\* C27: the name the table of an operand gives to value v is the tokens
\* of v's decoding increased relative to one fixed baseline, the decoding
\* of one value of the field, the same for every entry of the table.
C27_FixedBaseline ==
    pc = "operand_enumerated" =>
        \A k \in DOMAIN tables[1] :
            \/ tables[1][k] = <<>>
            \/ \E b \in 0 .. 2 ^ OperandFieldLen - 1 :
                  /\ DecodedAt(k, b) # None
                  /\ \A x \in 1 .. Len(tables[1][k]) :
                        LET e == tables[1][k][x] IN
                        e.name = find_modifier_difference(
                                     DecodedAt(k, b)[1],
                                     DecodedAt(k, e.value)[1])

--------------------------------------------------------------------------
(* enumerate_mod on one modifier field of EnumModFieldLen bits, for every  *)
(* oracle over the probed words; a decoding may hold a token twice.        *)

EnumModFieldLen == 2

EnumModLayout ==
    [NewMutationSet({}) EXCEPT
        !.modifier_bits = FirstFieldBit .. FirstFieldBit + EnumModFieldLen - 1]

EnumModAnswers ==
    {GarbageText}
    \cup {Asm(EnumInstruction(m)) :
             m \in {<<>>, <<"A">>, <<"A", "A">>, <<"A", "B">>}}

InitEnumMod ==
    \E layout \in {compute_encoding_ranges(EnumModLayout)} :
    \E words \in {{ProbeWord(layout, <<v>>) :
                      v \in 0 .. 2 ^ EnumModFieldLen - 1}} :
        /\ PoolIdle
        /\ ModifiersIdle
        /\ mset = canonicalize_modifier_groups(EnumModLayout)
        /\ ranges = layout
        /\ oracle \in [words -> EnumModAnswers]
        /\ parsed = None
        /\ tables = None
        /\ pc = "ranged"
        /\ call = EncodeDefaults
        /\ encoded = {}
        /\ mutations = <<>>
        /\ pass = None
        /\ disasm = <<>>
        /\ ispec = None
        /\ request = <<>>
        /\ solved = None
        /\ outcome = None

\* mod_result = self.enumerate_mod(disassembler, _modi_values, modifier, 0)
EnumerateMod ==
    /\ pc = "ranged"
    /\ tables' = enumerate_mod(oracle, ranges, <<0>>,
                               _find(ranges, MODIFIER_T)[1], 0)
    /\ pc' = "enumerated_mod"
    /\ UNCHANGED outsideEn

NextEnumMod == EnumerateMod

SpecEnumMod == InitEnumMod /\ [][NextEnumMod]_vars

\* The v-th result of the batch.
BatchResult(v) == oracle[ProbeWord(ranges, <<v>>)]

\* How often the v-th result decodes token t.
DecodedCount(v, t) == Count(parseInstruction(BatchResult(v)).modifiers, t)

\* The basis: the value-0 decoding less the tokens it holds beyond the
\* value-1 decoding.
BasisCount(t) ==
    LET beyond == DecodedCount(0, t) - DecodedCount(1, t)
    IN  DecodedCount(0, t) - (IF beyond > 0 THEN beyond ELSE 0)

\* The table lists values in increasing order, a value exactly when its
\* result parses, and names value v by the tokens the v-th result holds
\* beyond the basis.
TableOfBasis ==
    LET table == tables[1] IN
    /\ \A x \in 1 .. Len(table) : table[x].value \in 0 .. 2 ^ EnumModFieldLen - 1
    /\ \A x \in 1 .. Len(table) - 1 : table[x].value < table[x + 1].value
    /\ \A v \in 0 .. 2 ^ EnumModFieldLen - 1 :
          ~ParseRaises(BatchResult(v))
              <=> \E x \in 1 .. Len(table) : table[x].value = v
    /\ \A x \in 1 .. Len(table) : \A t \in {"A", "B"} :
          LET over == DecodedCount(table[x].value, t) - BasisCount(t) IN
          Count(NameTokens(table[x].name), t) = IF over > 0 THEN over ELSE 0

\* C28 as stated: the table is as above, and a token present in both the
\* value-0 and the value-1 decoding is in the name of neither value.
C28_EnumModTable ==
    pc = "enumerated_mod" /\ tables # None =>
        /\ TableOfBasis
        /\ \A t \in {"A", "B"} :
              DecodedCount(0, t) > 0 /\ DecodedCount(1, t) > 0
                  => \A x \in 1 .. 2 :
                        Count(NameTokens(tables[1][x].name), t) = 0

\* C28 amended: the table is as above, and a token is in the name of
\* value 0 (of value 1) only if the value-0 (value-1) decoding holds it
\* more often than the other; a token both hold equally often is in
\* neither name.
C28_EnumModTableCounts ==
    pc = "enumerated_mod" /\ tables # None =>
        /\ TableOfBasis
        /\ \A t \in {"A", "B"} :
              /\ Count(NameTokens(tables[1][1].name), t) > 0
                    => DecodedCount(0, t) > DecodedCount(1, t)
              /\ Count(NameTokens(tables[1][2].name), t) > 0
                    => DecodedCount(1, t) > DecodedCount(0, t)

\* Value 0 decodes A twice and value 1 once: value 0 is named "A.",
\* and every value is in the table.
C28_Witness ==
    /\ pc = "enumerated_mod"
    /\ tables # None
    /\ Len(tables[1]) = 2 ^ EnumModFieldLen
    /\ DecodedCount(0, "A") = 2
    /\ DecodedCount(1, "A") = 1
    /\ tables[1][1] = [value |-> 0, name |-> <<"A", ".">>]

--------------------------------------------------------------------------
(* analysis_extend_modifiers on its own, on the classifier _analyse leaves *)
(* for a window of NumExtendBits bits none of which became a flag.         *)

NumExtendBits == 3

ExtendBits == FirstRefineBit .. FirstRefineBit + NumExtendBits - 1

InitExtend ==
    \E seed \in RefineSeeds :
    \E answers \in [ExtendBits ->
                       {GarbageText}
                       \cup {Asm([seed EXCEPT !.modifiers = m]) :
                                m \in ModLists}] :
    \E triples \in {[j \in 1 .. NumExtendBits |->
                        [i_bit |-> FirstRefineBit + j - 1,
                         asm |-> answers[FirstRefineBit + j - 1]]]} :
    \E analysed \in {AnalyseAll(NewMutationSet({}), seed, triples, 1)} :
        /\ analysed.instruction_modifier_bit_flag = EmptyDict
        /\ PoolIdle
        /\ ModifiersIdle
        /\ parsed = seed
        /\ mutations = triples
        /\ mset = analysed
        /\ oracle = [w \in {set_bit({}, b) : b \in ExtendBits} |->
                        answers[CHOOSE b \in ExtendBits : w = set_bit({}, b)]]
        /\ pass = None
        /\ disasm = <<>>
        /\ ispec = None
        /\ request = <<>>
        /\ solved = None
        /\ outcome = None
        /\ tables = None
        /\ pc = "extend"
        /\ ranges = <<>>
        /\ call = EncodeDefaults
        /\ encoded = {}

NextExtend == StartExtend \/ ExtendAdj \/ ExtendReturn

SpecExtend == InitExtend /\ [][NextExtend]_vars

\* C29: analysis_extend_modifiers returns true if and only if the run
\* added a bit to modifier_bits.  Stated on the calls of analyse_adj:
\* after each call, the flag the pass will return says whether this call
\* or an earlier one of the run added a bit; a later call that finds a
\* difference on a bit that is a modifier bit already does not clear it.
C29_ExtendReportsChange ==
    [][(/\ pass # None
        /\ pass' # None
        /\ pass[1].name = "extend"
        /\ pass'[1].name = "extend")
          => pass'[1].changed
                = (pass[1].changed \/ mset'.modifier_bits # mset.modifier_bits)]_vars

--------------------------------------------------------------------------
(* Monotone passes *)

\* Every entry of flag map after is an entry of before.
FlagsWithin(after, before) ==
    /\ DOMAIN after \subseteq DOMAIN before
    /\ \A b \in DOMAIN after : after[b] = before[b]

====
